---- MODULE Spec2Model ----
(***************************************************************************)
(* ripio: a command-line client for git repositories hosted on Bitbucket   *)
(* and GitHub.  This module models the repository-reference parser         *)
(* (WorkspaceName, RepoRef, RepoRef.parse_origin), the short-name          *)
(* resolver (Completion), its caller in the CLI (get_repo), one            *)
(* repository object (Repo) with the operations that read its metadata,    *)
(* clone it, create, rename and delete it and read its commits, the        *)
(* delete command of the CLI, and one workspace object with its check and  *)
(* the generator of its paginated listing.                                 *)
(*                                                                         *)
(* Python strings are sequences of one-character strings, so that          *)
(* splitting, counting, prefix tests and the regular expressions of        *)
(* parse_origin are computed character by character as the code does.      *)
(***************************************************************************)
EXTENDS Integers, Sequences, FiniteSets, TLC

VARIABLES
    call,       \* the last call of a parsing function: [op, arg, parts, result, forms]
    caller,     \* who runs: "Completion" (called directly) or "get_repo" (the CLI)
    guess,      \* get_repo's guess argument
    name,       \* the name given to Completion or get_repo
    config,     \* the configuration: per site, credentials and workspaces
    remote,     \* the sites' state: per repository, the reply to its metadata request
    pc,         \* the position of the running call
    completion, \* Completion(name, config): "idle", "running", "returned", "raised"
    workspaces, \* Completion.workspaces (retval of list_workspaces while it runs)
    site_idx,   \* list_workspaces: the position of its loop over the sites
    cands,      \* complete: its local list workspaces
    local_name, \* complete: its local name, the site prefix split off
    idx,        \* complete: the position of its loop over cands
    found,      \* Completion.found
    denied,     \* Completion.denied
    probes,     \* the existence checks made so far, with their outcomes
    requests,   \* the HTTP requests sent so far
    exc,        \* the exception that ended the call, "none" if none
    repo_ref,   \* get_repo: the reference of the repository it returns
    exit_code,  \* the code of sys.exit, -1 while the process has not exited
    printed,    \* get_repo: the completions printed as ambiguous
    repo,       \* a Repo object: [site, credentials, ref, url, data, cache, props]
    site_reply, \* what the site answers to the metadata request of that repository
    log,        \* the lines logged, each with its level
    clones,     \* the invocations of the external clone operation: [url, ok]
    dest,       \* what is at each path under the destination directory
    steps,      \* the number of operations run on the Repo object
    wks,        \* a Workspace object: [site, credentials, name, url]
    listing,    \* what the site serves for that workspace: [kind, chain]
    gens        \* the generator of ls_repos in use, if any, with its position

vars == <<call, caller, guess, name, config, remote, pc, completion, workspaces,
          site_idx, cands, local_name, idx, found, denied, probes, requests, exc,
          repo_ref, exit_code, printed, repo, site_reply, log, clones, dest, steps,
          wks, listing, gens>>

listVars == <<wks, listing, gens>>

repoVars == <<repo, site_reply, log, clones, dest, steps, wks, listing, gens>>

resolverVars == <<caller, guess, name, config, remote, pc, completion, workspaces,
                  site_idx, cands, local_name, idx, found, denied, probes,
                  repo_ref, exit_code, printed>>

completionVars == <<caller, guess, name, config, remote, pc, completion, workspaces,
                    site_idx, cands, local_name, idx, found, denied, probes, requests, exc,
                    repo_ref, exit_code, printed>>

----------------------------------------------------------------------------
(* String helpers: the str methods the code uses.                          *)

\* s[k+1:]
Drop(s, k) == SubSeq(s, k + 1, Len(s))

\* s.startswith(p)
StartsWith(s, p) == Len(s) >= Len(p) /\ SubSeq(s, 1, Len(p)) = p

\* s.endswith(p)
EndsWith(s, p) == Len(s) >= Len(p) /\ SubSeq(s, Len(s) - Len(p) + 1, Len(s)) = p

\* s.count(c) for a one-character c
Count(s, c) == Cardinality({i \in 1..Len(s) : s[i] = c})

\* c in s
Contains(s, c) == \E i \in 1..Len(s) : s[i] = c

\* 1 + s.find(c): the position of the first c, 0 when there is none
Find(s, c) ==
    IF Contains(s, c)
    THEN CHOOSE i \in 1..Len(s) : s[i] = c /\ \A j \in 1..(i - 1) : s[j] # c
    ELSE 0

\* s.split(c): every occurrence of c separates two parts
RECURSIVE Split(_, _)
Split(s, c) ==
    LET k == Find(s, c)
    IN  IF k = 0 THEN <<s>>
        ELSE <<SubSeq(s, 1, k - 1)>> \o Split(Drop(s, k), c)

----------------------------------------------------------------------------
(* String literals of the program.                                         *)

S_bitbucket == <<"b","i","t","b","u","c","k","e","t">>
S_github == <<"g","i","t","h","u","b">>
S_bb == <<"b","b">>
S_gh == <<"g","h">>
S_xx == <<"x","x">>
S_bitbucket_org == <<"b","i","t","b","u","c","k","e","t",".","o","r","g">>
S_github_com == <<"g","i","t","h","u","b",".","c","o","m">>
S_example_com == <<"e","x","a","m","p","l","e",".","c","o","m">>
S_https == <<"h","t","t","p","s",":","/","/">>
S_git_at == <<"g","i","t","@">>
S_ssh == <<"s","s","h",":","/","/">>
S_ssh_git_at == <<"s","s","h",":","/","/","g","i","t","@">>
S_wrong == <<"w","r","o","n","g",":","/","/">>
S_dot_git == <<".","g","i","t">>
S_x_git == <<"x","g","i","t">>
S_git == <<"g","i","t">>

\* Python's None where a string is optional: no string of characters equals it
None == <<"None">>

\* BITBUCKET, GITHUB
BITBUCKET == S_bitbucket_org
GITHUB == S_github_com

\* sites: host -> site
sites == (BITBUCKET :> S_bitbucket) @@ (GITHUB :> S_github)

\* SITE_ABBREVS: site name or abbreviation -> site
SITE_ABBREVS ==
    (S_bitbucket :> S_bitbucket) @@ (S_bb :> S_bitbucket) @@
    (S_github :> S_github) @@ (S_gh :> S_github)

----------------------------------------------------------------------------
(* WorkspaceName and RepoRef.  A constructor returns a record whose err    *)
(* field names the exception it raised, "none" when it returned.           *)

WsError(e) == [err |-> e, site |-> <<>>, workspace |-> <<>>]

WorkspaceNameNoAbbrev(full_workspace, site) ==
    IF Count(full_workspace, ":") > 1 \/ Contains(full_workspace, "/")
    THEN WsError("BadWorkspaceName")
    ELSE LET parts == Split(full_workspace, ":")
             unpacked == Len(parts) = 2
         IN  IF ~unpacked /\ site = None
             THEN WsError("BadWorkspaceName")
             ELSE LET s == IF unpacked THEN parts[1] ELSE site
                      w == IF unpacked THEN parts[2] ELSE full_workspace
                  IN  [err |-> "none", site |-> s, workspace |-> w]

WorkspaceName(full_workspace, site) ==
    IF Count(full_workspace, ":") > 1 \/ Contains(full_workspace, "/")
    THEN WsError("BadWorkspaceName")
    ELSE LET parts == Split(full_workspace, ":")
             unpacked == Len(parts) = 2
         IN  IF ~unpacked /\ site = None
             THEN WsError("BadWorkspaceName")
             ELSE LET s == IF unpacked THEN parts[1] ELSE site
                      w == IF unpacked THEN parts[2] ELSE full_workspace
                  IN  IF s \in DOMAIN SITE_ABBREVS
                      THEN [err |-> "none", site |-> SITE_ABBREVS[s], workspace |-> w]
                      ELSE WsError("UnsupportedSite")

\* re.findall(...) of parse_origin: <<host, path>>, or <<>> when nothing matches.
\* r'\Assh://git@([^/]+)/(.+).git\Z'
MatchSsh(url) ==
    IF ~StartsWith(url, S_ssh_git_at) THEN <<>>
    ELSE LET rest == Drop(url, Len(S_ssh_git_at))
             k == Find(rest, "/")
             tail == Drop(rest, k)
         IN  IF k >= 2 /\ Len(tail) >= 5 /\ EndsWith(tail, S_git)
             THEN <<SubSeq(rest, 1, k - 1), SubSeq(tail, 1, Len(tail) - 4)>>
             ELSE <<>>

\* r'\Agit@([^:]+):(.+).git\Z'
MatchGit(url) ==
    IF ~StartsWith(url, S_git_at) THEN <<>>
    ELSE LET rest == Drop(url, Len(S_git_at))
             k == Find(rest, ":")
             tail == Drop(rest, k)
         IN  IF k >= 2 /\ Len(tail) >= 5 /\ EndsWith(tail, S_git)
             THEN <<SubSeq(rest, 1, k - 1), SubSeq(tail, 1, Len(tail) - 4)>>
             ELSE <<>>

\* The text the second group of the https pattern captures from the path:
\* (.+) is greedy and the group (?:\.git)? that follows it is optional, so
\* (.+) takes the whole path, a trailing .git included.
HttpsPath(tail) == tail

\* r'\Ahttps?://([^/]+)/(.+)(?:\.git)?\Z'
MatchHttps(url) ==
    IF ~StartsWith(url, S_https) THEN <<>>
    ELSE LET rest == Drop(url, Len(S_https))
             k == Find(rest, "/")
             tail == Drop(rest, k)
         IN  IF k >= 2 /\ Len(tail) >= 1
             THEN <<SubSeq(rest, 1, k - 1), HttpsPath(tail)>>
             ELSE <<>>

OriginError(e) == [err |-> e, text |-> <<>>]

\* The branch of parse_origin that url takes, and what its pattern finds
OriginFields(url) ==
    IF StartsWith(url, S_ssh) THEN MatchSsh(url)
    ELSE IF StartsWith(url, S_git_at) THEN MatchGit(url)
    ELSE MatchHttps(url)

\* RepoRef.parse_origin: 'site:path' of a remote URL
parse_origin(url) ==
    IF ~(StartsWith(url, S_ssh) \/ StartsWith(url, S_git_at) \/ StartsWith(url, S_https))
    THEN OriginError("BadRepositoryName")
    ELSE LET fields == OriginFields(url)
         IN  IF fields = <<>> THEN OriginError("IndexError")
             ELSE IF fields[1] \notin DOMAIN sites THEN OriginError("KeyError")
             ELSE [err |-> "none", text |-> sites[fields[1]] \o <<":">> \o fields[2]]

RefError(e) ==
    [err |-> e, site |-> <<>>, workspace |-> <<>>, slug |-> <<>>,
     full_name |-> <<>>, global_name |-> <<>>]

\* self.full_name = '{}/{}'.format(self.owner.workspace, self.slug)
FullNameOfOwner(owner, slug) == owner.site \o <<":">> \o owner.workspace \o <<"/">> \o slug

FullName(owner, slug) == owner.workspace \o <<"/">> \o slug

\* self.global_name = '{}:{}'.format(self.site, self.full_name)
GlobalName(site, full_name) == site \o <<":">> \o full_name

\* site_full_name.startswith(('https://', 'git@', 'ssh://'))
IsUrl(text) ==
    StartsWith(text, S_https) \/ StartsWith(text, S_git_at) \/ StartsWith(text, S_ssh)

\* RepoRef.__init__
RepoRef(site_full_name, site) ==
    LET origin == IF IsUrl(site_full_name) THEN parse_origin(site_full_name)
                  ELSE [err |-> "none", text |-> site_full_name]
    IN  IF origin.err # "none" THEN RefError(origin.err)
        ELSE IF Count(origin.text, "/") # 1 THEN RefError("BadRepositoryName")
        ELSE LET parts == Split(origin.text, "/")
                 owner == WorkspaceName(parts[1], site)
             IN  IF owner.err # "none" THEN RefError(owner.err)
                 ELSE [err |-> "none", site |-> owner.site,
                       workspace |-> owner.workspace, slug |-> parts[2],
                       full_name |-> FullName(owner, parts[2]),
                       global_name |-> GlobalName(owner.site, FullName(owner, parts[2]))]

\* RepoRef.from_origin
from_origin(url) ==
    LET origin == parse_origin(url)
    IN  IF origin.err # "none" THEN RefError(origin.err) ELSE RepoRef(origin.text, None)

\* RepoRef.from_parts
from_parts(workspace, reponame, site) == RepoRef(workspace \o <<"/">> \o reponame, site)

\* The site prefix of a reference string: the text before its first ':'
SitePrefix(text) == SubSeq(text, 1, Find(text, ":") - 1)

\* RepoRef.__eq__
RefEq(a, b) == a.global_name = b.global_name


----------------------------------------------------------------------------
(* Replies of the sites and their classification.                          *)

\* What the body of a reply that is no success may be: nothing; a JSON
\* document with the site's error message, sent as application/json; such a
\* document without the error message; a text/html page; text with no
\* Content-Type header
Bodies == {"empty", "json", "json_no_error", "html", "no_type"}

\* api_check: a status among expected raises nothing, a status of raises
\* raises its error, any other status with no content raises RemoteError;
\* otherwise the message is returned to the site's api_check
api_check(reply, expected, raises) ==
    IF reply.code \in expected THEN "none"
    ELSE IF reply.code \in DOMAIN raises THEN raises[reply.code]
    ELSE IF reply.body = "empty" THEN "RemoteError"
    ELSE "msg"

\* Bitbucket.api_check: the message is completed from the body and raised
\* as RemoteError.  'application/json' not in None is a TypeError,
\* reply.json()['error'] of a document without it a KeyError.
BitbucketApiCheck(reply, expected, raises) ==
    LET msg == api_check(reply, expected, raises)
    IN  IF msg # "msg" THEN msg
        ELSE CASE reply.body = "no_type" -> "TypeError"
               [] reply.body = "html" -> "RemoteError"
               [] reply.body = "json_no_error" -> "KeyError"
               [] OTHER -> "RemoteError"

\* Github.api_check: 403 is set to RateLimitExceeded, whatever raises held;
\* reply.json() of content that is no JSON document is a ValueError
\* (JSONDecodeError).
GithubApiCheck(reply, expected, raises) ==
    LET msg == api_check(reply, expected, (403 :> "RateLimitExceeded") @@ raises)
    IN  IF msg # "msg" THEN msg
        ELSE CASE reply.body \in {"html", "no_type"} -> "ValueError"
               [] OTHER -> "RemoteError"

\* BitbucketRepo.reply_check: raises.update of 403 and 404
BitbucketReplyCheck(reply, expected, raises) ==
    BitbucketApiCheck(reply, expected,
                      (403 :> "AccessDenied") @@ (404 :> "RepositoryNotFound") @@ raises)

\* GithubRepo.reply_check: raises.update of 401 and 404
GithubReplyCheck(reply, expected, raises) ==
    GithubApiCheck(reply, expected,
                   (401 :> "AccessDenied") @@ (404 :> "RepositoryNotFound") @@ raises)

NoRaises == [c \in {} |-> "none"]

reply_check(site, reply, expected, raises) ==
    IF site = S_bitbucket THEN BitbucketReplyCheck(reply, expected, raises)
    ELSE GithubReplyCheck(reply, expected, raises)

\* Repo._load_full_data: one GET of the repository's metadata.  net is what
\* the connection does, reply what the site answers.
LoadFullData(site, reply, net) ==
    IF net = "fail" THEN "NetworkError"
    ELSE reply_check(site, reply, {200}, NoRaises)

\* self.slug == self.name once the metadata is loaded: the Bitbucket payload
\* has a slug that replaces the requested one in _data, the GitHub payload
\* has none
SameSlug(site, ref_slug, reply) ==
    IF site = S_bitbucket THEN reply.slug = reply.name
    ELSE ref_slug = reply.name

\* Repo.checked_exists on a new Repo object: exists() loads the metadata to
\* read webpage, then _load_full_data() is called once more.
\* [result, sent]: what it returns or raises, and the requests it sent.
checked_exists(site, ref_slug, reply, net1, net2) ==
    LET first == LoadFullData(site, reply, net1)
        second == LoadFullData(site, reply, net2)
    IN  IF first = "RepositoryNotFound" THEN [result |-> "False", sent |-> 1]
        ELSE IF first # "none" THEN [result |-> first, sent |-> 1]
        ELSE IF second = "RepositoryNotFound" THEN [result |-> "False", sent |-> 2]
        ELSE IF second # "none" THEN [result |-> second, sent |-> 2]
        ELSE IF SameSlug(site, ref_slug, reply) THEN [result |-> "True", sent |-> 2]
        ELSE [result |-> "False", sent |-> 2]

----------------------------------------------------------------------------
(* Configurations, names and remote states the resolver is run on.         *)

MaxWorkspaces == 2

Sites == {S_bitbucket, S_github}
WsNames == {<<"A">>, <<"B">>}
Usernames == {<<"A">>}

SeqsUpTo(S, n) == UNION {[1..k -> S] : k \in 0..n}

SiteConfigs ==
    [credentials : Usernames \cup {None}, workspaces : SeqsUpTo(WsNames, MaxWorkspaces)]

\* At most MaxWorkspaces workspaces are configured, over the two sites
Configs ==
    {c \in [Sites -> SiteConfigs] :
        Len(c[S_bitbucket].workspaces) + Len(c[S_github].workspaces) <= MaxWorkspaces}

N_r == <<"r">>
N_m == <<"m">>

\* short names, site:name names, a full reference, owner/slug
Names ==
    {N_r,
     S_gh \o <<":">> \o N_r, S_github \o <<":">> \o N_r,
     S_bb \o <<":">> \o N_r, S_bitbucket \o <<":">> \o N_r,
     S_xx \o <<":">> \o N_r,
     S_bitbucket \o <<":", "A", "/">> \o N_r,
     <<"A", "/">> \o N_r}

Unknown == [code |-> 0, name |-> <<>>, slug |-> <<>>, body |-> "empty"]

\* The statuses a site answers when it does not serve the metadata
ErrorCodes == {401, 403, 404, 500}

\* The statuses reply_check of a site's repository has an error for
Classified(site) == IF site = S_bitbucket THEN {403, 404} ELSE {401, 403, 404}

\* The replies with an error status: any body comes with a status that
\* reply_check has no error for (the body of the others is not read)
ErrorReplies(site) ==
    {r \in [code : ErrorCodes, name : {<<>>}, slug : {<<>>}, body : Bodies] :
        r.code \in Classified(site) => r.body = "json"}

\* What a site may answer to the metadata request of repository ws/r: an
\* error status, or 200 with the repository's current name and slug
Replies(site) ==
    ErrorReplies(site)
    \cup (IF site = S_bitbucket
          THEN {[code |-> 200, name |-> N_r, slug |-> N_r, body |-> "json"],
                [code |-> 200, name |-> N_m, slug |-> N_r, body |-> "json"]}
          ELSE {[code |-> 200, name |-> N_r, slug |-> <<>>, body |-> "json"],
                [code |-> 200, name |-> N_m, slug |-> <<>>, body |-> "json"]})

Repos == Sites \X WsNames

NoCall ==
    [op |-> "none", arg |-> <<>>,
     parts |-> [host |-> <<>>, owner |-> <<>>, slug |-> <<>>],
     result |-> RefError("none"),
     forms |-> [f \in {"https", "https_git", "git", "ssh"} |-> RefError("none")]]

\* No Repo object is in use
NoRepo ==
    [site |-> <<>>, credentials |-> [err |-> "None", username |-> <<>>, password |-> <<>>],
     ref |-> <<>>, url |-> <<>>, data |-> <<>>, cache |-> <<>>, props |-> <<>>]

\* No Workspace object is in use
NoWorkspace ==
    [site |-> <<>>, credentials |-> [err |-> "None", username |-> <<>>, password |-> <<>>],
     name |-> <<>>, url |-> <<>>]

NoListing ==
    /\ wks = NoWorkspace
    /\ listing = [kind |-> "missing", chain |-> <<>>]
    /\ gens = <<>>

\* The state of a process in which nothing has run yet
Fresh ==
    /\ NoListing
    /\ repo = NoRepo
    /\ site_reply = Unknown
    /\ log = <<>>
    /\ clones = <<>>
    /\ dest = "absent"
    /\ steps = 0
    /\ remote = [r \in Repos |-> Unknown]
    /\ completion = "idle"
    /\ workspaces = <<>>
    /\ site_idx = 0
    /\ cands = <<>>
    /\ local_name = <<>>
    /\ idx = 0
    /\ found = <<>>
    /\ denied = <<>>
    /\ probes = <<>>
    /\ requests = <<>>
    /\ exc = "none"
    /\ repo_ref = <<>>
    /\ exit_code = -1
    /\ printed = <<>>

----------------------------------------------------------------------------
(* The parser under test: every call of RepoRef and of from_origin on the  *)
(* strings of RefInputs, and from_origin on the four URL forms of one      *)
(* repository.                                                             *)

Prefixes == {<<>>, S_https, S_git_at, S_ssh, S_ssh_git_at, S_wrong}
Hosts == {S_bitbucket_org, S_github_com, S_example_com,
          S_bitbucket, S_github, S_bb, S_gh, S_xx, <<>>}
Owners == {<<"o">>, <<>>, <<"o", ":", "p">>}
Slugs == {<<"s">>, <<>>, <<"s", "/", "t">>}
Suffixes == {<<>>, S_dot_git, S_x_git}

RefInputs ==
    {pre \o host \o s1 \o owner \o s2 \o slug \o suf :
        pre \in Prefixes, host \in Hosts, s1 \in {<<>>, <<":">>, <<"/">>},
        owner \in Owners, s2 \in {<<>>, <<"/">>}, slug \in Slugs, suf \in Suffixes}

NoParts == [host |-> <<>>, owner |-> <<>>, slug |-> <<>>]

FormNames == {"https", "https_git", "git", "ssh"}

\* The remote URL of repository owner/slug on host, in each supported form
FormUrl(f, p) ==
    CASE f = "https" -> S_https \o p.host \o <<"/">> \o p.owner \o <<"/">> \o p.slug
      [] f = "https_git" ->
            S_https \o p.host \o <<"/">> \o p.owner \o <<"/">> \o p.slug \o S_dot_git
      [] f = "git" ->
            S_git_at \o p.host \o <<":">> \o p.owner \o <<"/">> \o p.slug \o S_dot_git
      [] f = "ssh" ->
            S_ssh_git_at \o p.host \o <<"/">> \o p.owner \o <<"/">> \o p.slug \o S_dot_git

NoForms == [f \in FormNames |-> RefError("none")]

RefInit ==
    /\ call = NoCall
    /\ caller = "none"
    /\ guess = FALSE
    /\ name = <<>>
    /\ config = [s \in Sites |-> [credentials |-> None, workspaces |-> <<>>]]
    /\ pc = "parser"
    /\ Fresh

\* RepoRef(text)
CallRepoRef ==
    /\ call.op = "none"
    /\ \E text \in RefInputs :
        call' = [op |-> "RepoRef", arg |-> text, parts |-> NoParts,
                 result |-> RepoRef(text, None), forms |-> NoForms]
    /\ UNCHANGED <<completionVars, repoVars>>

\* RepoRef.from_origin(text)
CallFromOrigin ==
    /\ call.op = "none"
    /\ \E text \in RefInputs :
        call' = [op |-> "from_origin", arg |-> text, parts |-> NoParts,
                 result |-> from_origin(text), forms |-> NoForms]
    /\ UNCHANGED <<completionVars, repoVars>>

\* RepoRef.from_origin on every URL form of one repository of a known host,
\* and RepoRef('site:owner/slug') of the same repository
CallUrlForms ==
    /\ call.op = "none"
    /\ \E host \in DOMAIN sites, owner \in {<<"o">>, <<"O", "w">>},
       slug \in {<<"s">>, <<"s", ".", "t">>, <<"g", "i", "t">>} :
        LET p == [host |-> host, owner |-> owner, slug |-> slug]
        IN  call' = [op |-> "url_forms", arg |-> sites[host] \o <<":">> \o owner \o <<"/">> \o slug,
                     parts |-> p,
                     result |-> RepoRef(sites[host] \o <<":">> \o owner \o <<"/">> \o slug, None),
                     forms |-> [f \in FormNames |-> from_origin(FormUrl(f, p))]]
    /\ UNCHANGED <<completionVars, repoVars>>

\* Credentials.__init__: username, password = credentials.split(':'); the
\* unpacking needs exactly two parts
Credentials(credentials) ==
    LET parts == Split(credentials, ":")
    IN  IF Len(parts) # 2
        THEN [err |-> "ValueError", username |-> <<>>, password |-> <<>>]
        ELSE [err |-> "none", username |-> parts[1], password |-> parts[2]]

\* Credentials.__eq__
CredEq(a, b) == <<a.username, a.password>> = <<b.username, b.password>>

\* Credentials.__str__: the username and one asterisk for each character of
\* the password, in quotes
CredStr(c) ==
    <<"'">> \o c.username \o <<":">> \o [i \in 1..Len(c.password) |-> "*"] \o <<"'">>

\* The strings Credentials are built from
CredInputs ==
    {<<"u", ":", "p", "w">>, <<"u", ":", "p", ":", "w">>, <<"u", ":", "q">>, <<"v", ":", "p", "w">>,
     <<"u">>, <<"u", ":">>, <<":", "p", "w">>, <<>>}

\* Credentials(text), Credentials(other) and their comparison
CallCredentials ==
    /\ call.op = "none"
    /\ \E text \in CredInputs, other \in CredInputs :
        LET a == Credentials(text)
            b == Credentials(other)
        IN  call' = [op |-> "Credentials", arg |-> text, other |-> other,
                     result |-> a, result2 |-> b,
                     str |-> IF a.err = "none" THEN CredStr(a) ELSE <<>>,
                     eq |-> IF a.err = "none" /\ b.err = "none" THEN CredEq(a, b) ELSE FALSE]
    /\ UNCHANGED <<completionVars, repoVars>>

\* The workspace strings WorkspaceName is called on, and its site argument
S_foo == <<"f", "o", "o">>
WsInputs ==
    {pre \o S_foo : pre \in {<<>>, <<":">>} \cup
                              {x \o <<":">> : x \in {S_bitbucket, S_bb, S_github, S_gh, S_xx}}}
        \cup {<<"a", ":", "b", ":", "c">>, <<"a", "/", "b">>, S_bb \o <<":", "a", "/", "b">>,
              S_bb \o <<":">>, <<>>}
WsSites == {None, S_bitbucket, S_gh, S_xx}

\* WorkspaceName(text, site)
CallWorkspaceName ==
    /\ call.op = "none"
    /\ \E text \in WsInputs, site \in WsSites :
        call' = [op |-> "WorkspaceName", arg |-> text, site |-> site,
                 result |-> WorkspaceName(text, site)]
    /\ UNCHANGED <<completionVars, repoVars>>

\* The operations of a repository whose reply goes through reply_check
Operations == {"get", "create", "delete"}

\* The statuses an operation expects: [200] by default, [201] for create
\* on GitHub, [204] for delete
Expected(site, operation) ==
    CASE operation = "delete" -> {204}
      [] operation = "create" /\ site = S_github -> {201}
      [] OTHER -> {200}

\* The errors an operation adds to those of reply_check: AlreadyExists for
\* 400 on Bitbucket and 422 on GitHub when creating
Raises(site, operation) ==
    IF operation = "create"
    THEN (IF site = S_bitbucket THEN 400 ELSE 422) :> "AlreadyExists"
    ELSE NoRaises

StatusCodes == {200, 201, 204, 400, 401, 403, 404, 422, 500}

\* self.reply_check(result, expected, raises) after an operation
CallReplyCheck ==
    /\ call.op = "none"
    /\ \E site \in {S_bitbucket, S_github}, operation \in Operations,
          code \in StatusCodes, body \in Bodies :
        LET reply == [code |-> code, name |-> <<>>, slug |-> <<>>, body |-> body]
        IN  call' = [op |-> "reply_check", site |-> site, operation |-> operation,
                     reply |-> reply,
                     result |-> reply_check(site, reply, Expected(site, operation),
                                            Raises(site, operation))]
    /\ UNCHANGED <<completionVars, repoVars>>

\* credentials is None
NoCredentials == [err |-> "None", username |-> <<>>, password |-> <<>>]

\* Auth.auth: the url with user:password@ put before its host, any user
\* part it had dropped
auth(credentials, url) ==
    IF credentials = NoCredentials THEN url
    ELSE LET rest == Drop(url, Len(S_https))
             k == Find(rest, "/")
             netloc == IF k = 0 THEN rest ELSE SubSeq(rest, 1, k - 1)
             path == IF k = 0 THEN <<>> ELSE Drop(rest, k - 1)
             plain == IF Contains(netloc, "@") THEN Split(netloc, "@")[2] ELSE netloc
         IN  S_https \o credentials.username \o <<":">> \o credentials.password
                 \o <<"@">> \o plain \o path

\* The credentials and the https URLs Auth.auth is called on: passwords
\* and usernames with and without an '@', URLs with and without a user part
\* and a path
AuthCredentials ==
    {NoCredentials,
     Credentials(<<"u", ":", "p", "w">>), Credentials(<<"u", ":", "p", "@", "w">>), Credentials(<<"a", "@", "b", ":", "p", "w">>)}

AuthUrls ==
    {S_https \o user \o BITBUCKET \o path :
        user \in {<<>>, <<"x", "@">>, <<"x", ":", "y", "@">>},
        path \in {<<>>, <<"/", "o", "/", "s">>}}

\* Auth(credentials).auth(url), and auth again on what it returned
CallAuth ==
    /\ call.op = "none"
    /\ \E credentials \in AuthCredentials, url \in AuthUrls :
        call' = [op |-> "auth", credentials |-> credentials, arg |-> url,
                 result |-> auth(credentials, url),
                 again |-> auth(credentials, auth(credentials, url))]
    /\ UNCHANGED <<completionVars, repoVars>>

RefNext ==
    \/ CallRepoRef
    \/ CallFromOrigin
    \/ CallUrlForms
    \/ CallWorkspaceName
    \/ CallCredentials
    \/ CallReplyCheck
    \/ CallAuth

SpecRef == RefInit /\ [][RefNext]_vars

----------------------------------------------------------------------------
(* Completion(name, config) and get_repo(config, name, guess).             *)

\* list_workspaces: sites = ws_class.keys()
SiteOrder == <<S_bitbucket, S_github>>

\* list_workspaces, the body of its loop: the names of the workspaces it
\* builds for a site, the credentials' username first
SiteNamesUserLast(cfg, site) ==
    cfg[site].workspaces \o
    (IF cfg[site].credentials # None THEN <<cfg[site].credentials>> ELSE <<>>)

SiteNames(cfg, site) ==
    (IF cfg[site].credentials # None THEN <<cfg[site].credentials>> ELSE <<>>)
    \o cfg[site].workspaces

\* BitbucketWorkspace(name, credentials), GithubWorkspace(name, credentials)
MakeWorkspace(site, ws_name) ==
    LET wn == WorkspaceName(ws_name, site)
    IN  [err |-> wn.err, site |-> site, workspace |-> wn.workspace]

\* The request GithubWorkspace.__init__ sends to the organization endpoint
OrgRequest(site, ws_name) == [op |-> "org", site |-> site, workspace |-> ws_name]

\* The metadata request of a repository
RepoRequest(ws) == [op |-> "repo", site |-> ws.site, workspace |-> ws.workspace]

\* list.append
RecordFirst(list, ref) == <<ref>> \o list

Record(list, ref) == Append(list, ref)

\* complete: workspaces = [ws for ws in workspaces if ws.site == SITE_ABBREVS[site]]
NoNarrow(wss, site) == wss

NarrowToSite(wss, site) ==
    SelectSeq(wss, LAMBDA ws : ws.site = SITE_ABBREVS[site])

\* complete, the body of its loop: what becomes of the outcome of
\* checked_exists
OnCheckDeniedAborts(result) ==
    CASE result = "True" -> "found"
      [] result = "False" -> "skip"
      [] OTHER -> "raise"

OnCheck(result) ==
    CASE result = "True" -> "found"
      [] result = "AccessDenied" -> "denied"
      [] result = "False" -> "skip"
      [] OTHER -> "raise"

\* Completion.__init__: if not self.found and not self.denied
NoGuessIgnoringDenied(fnd, dnd) == fnd = <<>>

NoGuess(fnd, dnd) == fnd = <<>> /\ dnd = <<>>

\* How a call of Completion ends: the caller goes on or the process is done
Raise(e) ==
    /\ exc' = e
    /\ completion' = IF completion = "running" THEN "raised" ELSE completion
    /\ pc' = "done"

Init ==
    /\ call = NoCall
    /\ caller \in {"Completion", "get_repo"}
    /\ guess \in (IF caller = "get_repo" THEN BOOLEAN ELSE {TRUE})
    /\ name \in Names
    /\ config \in Configs
    /\ pc = caller
    /\ Fresh

\* get_repo, up to the call of Completion
GetRepo ==
    /\ UNCHANGED repoVars
    /\ pc = "get_repo"
    /\ LET ref == RepoRef(name, None)
       IN  IF ref.err = "none"
           THEN /\ repo_ref' = ref.global_name
                /\ pc' = "done"
                /\ UNCHANGED <<exc, completion>>
           ELSE IF ref.err = "BadRepositoryName" /\ guess
           THEN /\ pc' = "Completion"
                /\ UNCHANGED <<exc, completion, repo_ref>>
           ELSE /\ Raise(ref.err)
                /\ UNCHANGED repo_ref
    /\ UNCHANGED <<call, caller, guess, name, config, remote, workspaces, site_idx,
                   cands, local_name, idx, found, denied, probes, requests,
                   exit_code, printed>>

\* Completion.__init__, up to the call of list_workspaces
CompletionStart ==
    /\ UNCHANGED repoVars
    /\ pc = "Completion"
    /\ completion' = "running"
    /\ found' = <<>>
    /\ denied' = <<>>
    /\ workspaces' = <<>>
    /\ site_idx' = 1
    /\ pc' = "list_workspaces"
    /\ UNCHANGED <<call, caller, guess, name, config, remote, cands, local_name, idx,
                   probes, requests, exc, repo_ref, exit_code, printed>>

\* list_workspaces, one turn of its loop over the sites: the workspaces of
\* one site are built and appended.  A GithubWorkspace sends a request when
\* it is built; failed is the position of the workspace whose request met a
\* connection failure, 0 when none did.
ListWorkspaces ==
    /\ UNCHANGED repoVars
    /\ pc = "list_workspaces"
    /\ site_idx <= Len(SiteOrder)
    /\ LET site == SiteOrder[site_idx]
           names == SiteNames(config, site)
       IN  \E failed \in 0..(IF site = S_github THEN Len(names) ELSE 0) :
               LET built == IF failed = 0 THEN Len(names) ELSE failed - 1
                   sent == IF site # S_github THEN 0
                           ELSE IF failed = 0 THEN Len(names) ELSE failed
                   wss == [i \in 1..built |-> MakeWorkspace(site, names[i])]
               IN  /\ workspaces' =
                        workspaces \o [i \in 1..built |->
                                          [site |-> wss[i].site, workspace |-> wss[i].workspace]]
                   /\ requests' = requests \o [i \in 1..sent |-> OrgRequest(site, names[i])]
                   /\ IF failed # 0
                      THEN Raise("NetworkError") /\ UNCHANGED site_idx
                      ELSE /\ site_idx' = site_idx + 1
                           /\ pc' = IF site_idx = Len(SiteOrder) THEN "require" ELSE pc
                           /\ UNCHANGED <<exc, completion>>
    /\ UNCHANGED <<call, caller, guess, name, config, remote, cands, local_name, idx,
                   found, denied, probes, repo_ref, exit_code, printed>>

\* Completion.__init__: if not self.workspaces: raise ConfigError
RequireWorkspaces ==
    /\ UNCHANGED repoVars
    /\ pc = "require"
    /\ IF workspaces = <<>>
       THEN Raise("ConfigError")
       ELSE pc' = "complete" /\ UNCHANGED <<exc, completion>>
    /\ UNCHANGED <<call, caller, guess, name, config, remote, workspaces, site_idx,
                   cands, local_name, idx, found, denied, probes, requests,
                   repo_ref, exit_code, printed>>

\* complete, up to its loop: a name that is a full reference returns at
\* once; a name site:name narrows the workspaces to the site
Complete ==
    /\ UNCHANGED repoVars
    /\ pc = "complete"
    /\ LET ref == RepoRef(name, None)
           prefixed == Count(name, ":") = 1
           parts == Split(name, ":")
       IN  IF ref.err = "none"
           THEN /\ pc' = "final"
                /\ UNCHANGED <<cands, local_name, idx, exc, completion>>
           ELSE IF ref.err # "BadRepositoryName"
           THEN /\ Raise(ref.err)
                /\ UNCHANGED <<cands, local_name, idx>>
           ELSE IF prefixed /\ parts[1] \notin DOMAIN SITE_ABBREVS
           THEN /\ Raise("KeyError")
                /\ local_name' = parts[2]
                /\ UNCHANGED <<cands, idx>>
           ELSE /\ local_name' = IF prefixed THEN parts[2] ELSE name
                /\ cands' = IF prefixed THEN NarrowToSite(workspaces, parts[1])
                            ELSE workspaces
                /\ idx' = 1
                /\ pc' = IF cands' = <<>> THEN "final" ELSE "scan"
                /\ UNCHANGED <<exc, completion>>
    /\ UNCHANGED <<call, caller, guess, name, config, remote, workspaces, site_idx,
                   found, denied, probes, requests, repo_ref, exit_code, printed>>

\* complete, one turn of its loop: the repository of the next workspace is
\* made and checked.  The site's answer for a repository is chosen when the
\* repository is first asked for and stays; net1 and net2 are what the
\* connection does at each of the two requests of checked_exists.
Probe ==
    /\ UNCHANGED repoVars
    /\ pc = "scan"
    /\ idx <= Len(cands)
    /\ LET ws == cands[idx]
           ref == from_parts(ws.workspace, local_name, ws.site)
           key == <<ws.site, ws.workspace>>
       IN  IF ref.err # "none"
           THEN /\ Raise(ref.err)
                /\ UNCHANGED <<remote, found, denied, probes, requests, idx>>
           ELSE \E reply \in (IF remote[key] = Unknown THEN Replies(ws.site)
                              ELSE {remote[key]}),
                   net1 \in {"ok", "fail"}, net2 \in {"ok", "fail"} :
                    LET check == checked_exists(ws.site, ref.slug, reply, net1, net2)
                        todo == OnCheck(check.result)
                    IN  /\ net1 = "fail" => net2 = "ok"
                        /\ remote' = IF net1 = "fail" THEN remote
                                     ELSE [remote EXCEPT ![key] = reply]
                        /\ requests' = requests \o [i \in 1..check.sent |-> RepoRequest(ws)]
                        /\ probes' = Append(probes, [site |-> ws.site,
                                                     workspace |-> ws.workspace,
                                                     result |-> check.result])
                        /\ found' = IF todo = "found" THEN Record(found, ref.global_name)
                                    ELSE found
                        /\ denied' = IF todo = "denied" THEN Record(denied, ref.global_name)
                                     ELSE denied
                        /\ IF todo = "raise"
                           THEN Raise(check.result) /\ UNCHANGED idx
                           ELSE /\ idx' = idx + 1
                                /\ pc' = IF idx = Len(cands) THEN "final" ELSE pc
                                /\ UNCHANGED <<exc, completion>>
    /\ UNCHANGED <<call, caller, guess, name, config, workspaces, site_idx, cands,
                   local_name, repo_ref, exit_code, printed>>

\* Completion.__init__, after complete: no guess raises WrongCompletion
Final ==
    /\ UNCHANGED repoVars
    /\ pc = "final"
    /\ IF NoGuess(found, denied)
       THEN Raise("WrongCompletion")
       ELSE /\ completion' = "returned"
            /\ pc' = IF caller = "get_repo" THEN "policy" ELSE "done"
            /\ UNCHANGED exc
    /\ UNCHANGED <<call, caller, guess, name, config, remote, workspaces, site_idx,
                   cands, local_name, idx, found, denied, probes, requests,
                   repo_ref, exit_code, printed>>

\* get_repo, after Completion returned: one completion is the repository,
\* several are printed and the process exits; with none repo_ref was never
\* assigned and return ripio.Repo.make(repo_ref, ...) raises
\* UnboundLocalError
Policy ==
    /\ UNCHANGED repoVars
    /\ pc = "policy"
    /\ pc' = "done"
    /\ IF Len(found) = 1
       THEN /\ repo_ref' = RepoRef(found[1], None).global_name
            /\ UNCHANGED <<exc, exit_code, printed>>
       ELSE IF Len(found) > 1
       THEN /\ printed' = found
            /\ exit_code' = 1
            /\ UNCHANGED <<exc, repo_ref>>
       ELSE /\ exc' = "UnboundLocalError"
            /\ UNCHANGED <<repo_ref, exit_code, printed>>
    /\ UNCHANGED <<call, caller, guess, name, config, remote, completion, workspaces,
                   site_idx, cands, local_name, idx, found, denied, probes, requests>>

Next ==
    \/ GetRepo
    \/ CompletionStart
    \/ ListWorkspaces
    \/ RequireWorkspaces
    \/ Complete
    \/ Probe
    \/ Final
    \/ Policy

Spec == Init /\ [][Next]_vars

----------------------------------------------------------------------------
(* A Repo object: its metadata, the attribute reads that load it, and the  *)
(* existence checks.  An operation returns a record: the object after it,  *)
(* the exception it raised, what it returned, the requests it sent and the *)
(* lines it logged.                                                        *)

\* BitbucketRepo.BASE_URL, GithubRepo.BASE_URL, up to the owner
S_api_bitbucket ==
    <<"h", "t", "t", "p", "s", ":", "/", "/", "a", "p", "i", ".", "b", "i",
      "t", "b", "u", "c", "k", "e", "t", ".", "o", "r", "g", "/", "2", ".",
      "0", "/", "r", "e", "p", "o", "s", "i", "t", "o", "r", "i", "e", "s",
      "/">>
S_api_github ==
    <<"h", "t", "t", "p", "s", ":", "/", "/", "a", "p", "i", ".", "g", "i",
      "t", "h", "u", "b", ".", "c", "o", "m", "/", "r", "e", "p", "o", "s",
      "/">>

\* Where a site serves its web pages and clone links
WebHost(site) == IF site = S_bitbucket THEN BITBUCKET ELSE GITHUB

\* self.BASE_URL.format(owner=..., repo=...)
BaseUrl(site, owner, slug) ==
    (IF site = S_bitbucket THEN S_api_bitbucket ELSE S_api_github)
        \o owner \o <<"/">> \o slug

EmptyDict == [k \in {} |-> <<>>]

\* BitbucketRepo.__init__, GithubRepo.__init__
NewRepo(site, owner, slug, credentials) ==
    [site |-> site, credentials |-> credentials,
     ref |-> from_parts(owner, slug, site).global_name,
     url |-> auth(credentials, BaseUrl(site, owner, slug)),
     data |-> [full_name |-> owner \o <<"/">> \o slug, slug |-> slug],
     cache |-> EmptyDict, props |-> EmptyDict]

\* from_data: the object of an entry of a workspace listing
from_data(site, owner, slug, credentials) ==
    LET instance == NewRepo(site, owner, slug, credentials)
    IN  [instance EXCEPT !.data =
            [scm |-> S_git, slug |-> slug, full_name |-> owner \o <<"/">> \o slug,
             size |-> <<"1">>, access |-> <<"p">>] @@ instance.data]

\* The clone links and the web page of repository owner/slug
Links(site, owner, slug) ==
    [html |-> S_https \o WebHost(site) \o <<"/">> \o owner \o <<"/">> \o slug,
     https |-> S_https \o WebHost(site) \o <<"/">> \o owner \o <<"/">> \o slug \o S_dot_git,
     ssh |-> S_git_at \o WebHost(site) \o <<":">> \o owner \o <<"/">> \o slug \o S_dot_git]

\* result.json() of a 200 reply, with the access and size that
\* _load_full_data adds.  The Bitbucket payload has slug, scm and links,
\* the GitHub payload html_url, ssh_url and clone_url.
Payload(site, owner, rep) ==
    IF site = S_bitbucket
    THEN [name |-> rep.name, slug |-> rep.slug,
          full_name |-> owner \o <<"/">> \o rep.slug,
          links |-> Links(site, owner, rep.slug),
          scm |-> S_git, size |-> <<"1">>, access |-> <<"p">>]
    ELSE [name |-> rep.name,
          full_name |-> owner \o <<"/">> \o rep.name,
          html_url |-> Links(site, owner, rep.name).html,
          ssh_url |-> Links(site, owner, rep.name).ssh,
          clone_url |-> Links(site, owner, rep.name).https,
          size |-> <<"1">>, access |-> <<"p">>]

\* A line of the log
Line(level, text) == [level |-> level, text |-> text]

\* What an operation on a Repo object gives
Res(r, e, v, n, l) == [repo |-> r, exc |-> e, ret |-> v, sent |-> n, lines |-> l]

\* Repo.__getattr__ under lru_cache: a value read before is returned again;
\* a key of _data is returned; otherwise the metadata is loaded and merged
\* into _data
getattr(r, owner, attr, rep, net) ==
    IF attr \in DOMAIN r.cache THEN Res(r, "none", r.cache[attr], 0, <<>>)
    ELSE IF attr \in DOMAIN r.data
    THEN Res([r EXCEPT !.cache = (attr :> r.data[attr]) @@ r.cache],
             "none", r.data[attr], 0, <<>>)
    ELSE LET e == LoadFullData(r.site, rep, net)
             line == <<Line("DEBUG", r.url)>>
             d == Payload(r.site, owner, rep) @@ r.data
         IN  IF e # "none" THEN Res(r, e, <<>>, 1, line)
             ELSE IF attr \in DOMAIN d
             THEN Res([r EXCEPT !.data = d, !.cache = (attr :> d[attr]) @@ r.cache],
                      "none", d[attr], 1, line)
             ELSE Res([r EXCEPT !.data = d], "AttributeError", <<>>, 1, line)

\* Two steps of a method in sequence: what the second gave, after the
\* requests and the log lines of the first
After(first, second) ==
    Res(second.repo, second.exc, second.ret,
        first.sent + second.sent, first.lines \o second.lines)

\* lru_cache of a property: the value a call returned is kept
Memo(res, property) ==
    IF res.exc # "none" THEN res
    ELSE [res EXCEPT !.repo.props = (property :> res.ret) @@ @]

\* links['html']['href'] of the Bitbucket payload
Href(links) ==
    IF links.exc # "none" THEN links ELSE [links EXCEPT !.ret = @.html]

\* The property webpage under lru_cache: links['html']['href'] on
\* Bitbucket, html_url on GitHub
webpage(r, owner, rep, net) ==
    IF "webpage" \in DOMAIN r.props THEN Res(r, "none", r.props["webpage"], 0, <<>>)
    ELSE IF r.site = S_bitbucket
    THEN Memo(Href(getattr(r, owner, "links", rep, net)), "webpage")
    ELSE Memo(getattr(r, owner, "html_url", rep, net), "webpage")

\* Repo.check: true once self.webpage is read
Checked(page) ==
    IF page.exc # "none" THEN page ELSE [page EXCEPT !.ret = TRUE]

check(r, owner, rep, net) == Checked(webpage(r, owner, rep, net))

\* except RepositoryNotFound: false
NotFoundIsFalse(c) ==
    IF c.exc = "RepositoryNotFound" THEN [c EXCEPT !.exc = "none", !.ret = FALSE]
    ELSE c

\* Repo.exists
exists(r, owner, rep, net) == NotFoundIsFalse(check(r, owner, rep, net))

\* The value of one more attribute read
Appended(read, value) ==
    After(read, IF value.exc # "none" THEN value
                ELSE [value EXCEPT !.ret = Append(read.ret, @)])

\* Attributes read one after the other, the value of each in turn
RECURSIVE ReadAll(_, _, _, _, _)
ReadAll(read, attrs, owner, rep, net) ==
    IF attrs = <<>> \/ read.exc # "none" THEN read
    ELSE ReadAll(Appended(read, getattr(read.repo, owner, Head(attrs), rep, net)),
                 Tail(attrs), owner, rep, net)

\* self.slug == self.name
SlugIsName(read) ==
    IF read.exc # "none" THEN read ELSE [read EXCEPT !.ret = (@[1] = @[2])]

\* Repo.checked_exists after exists() returned true: self._load_full_data(),
\* whose result is dropped, then the comparison
Reloaded(e, rep, net) ==
    Res(e.repo, LoadFullData(e.repo.site, rep, net), <<>>,
        e.sent + 1, e.lines \o <<Line("DEBUG", e.repo.url)>>)

Compared(loaded, owner, rep, net) ==
    IF loaded.exc # "none" THEN loaded
    ELSE After(loaded,
               SlugIsName(ReadAll(Res(loaded.repo, "none", <<>>, 0, <<>>),
                                  <<"slug", "name">>, owner, rep, net)))

CheckedExistsAfter(e, owner, rep, net2) ==
    IF e.exc # "none" \/ e.ret = FALSE THEN e
    ELSE NotFoundIsFalse(Compared(Reloaded(e, rep, net2), owner, rep, net2))

\* Repo.checked_exists on the object r
repo_checked_exists(r, owner, rep, net1, net2) ==
    CheckedExistsAfter(exists(r, owner, rep, net1), owner, rep, net2)

\* The links of the Bitbucket payload by protocol
ByProtocol(links) ==
    IF links.exc # "none" THEN links
    ELSE [links EXCEPT !.ret = [ssh |-> @.ssh, https |-> @.https]]

\* dict(ssh=self.ssh_url, https=self.clone_url) on GitHub
SshAndHttps(read) ==
    IF read.exc # "none" THEN read
    ELSE [read EXCEPT !.ret = [ssh |-> @[1], https |-> @[2]]]

\* The property clone_links under lru_cache
clone_links(r, owner, rep, net) ==
    IF "clone_links" \in DOMAIN r.props
    THEN Res(r, "none", r.props["clone_links"], 0, <<>>)
    ELSE IF r.site = S_bitbucket
    THEN Memo(ByProtocol(getattr(r, owner, "links", rep, net)), "clone_links")
    ELSE Memo(SshAndHttps(ReadAll(Res(r, "none", <<>>, 0, <<>>),
                                  <<"ssh_url", "clone_url">>, owner, rep, net)),
              "clone_links")

\* Repo.info reads self.webpage, self.clone_links, self.access and
\* self.size in this order
InfoLinks(page, links) ==
    After(page, IF links.exc # "none" THEN links
                ELSE [links EXCEPT !.ret = <<page.ret, @.https, @.ssh>>])

InfoAfterPage(page, owner, rep, net) ==
    IF page.exc # "none" THEN page
    ELSE InfoLinks(page, clone_links(page.repo, owner, rep, net))

\* Repo.info: the values it formats
info(r, owner, rep, net) ==
    ReadAll(InfoAfterPage(webpage(r, owner, rep, net), owner, rep, net),
            <<"access", "size">>, owner, rep, net)


\* The messages of Repo.clone
S_cloning_failed ==
    <<"c", "l", "o", "n", "i", "n", "g", " ", "f", "a", "i", "l", "e", "d",
      ".">>
S_retrying ==
    <<"-", " ", "r", "e", "t", "r", "y", "i", "n", "g", " ", "w", "i", "t",
      "h", " ", "'", "h", "t", "t", "p", "s", "'", ".", ".", ".">>

\* What Repo.clone gives: as Res, with the invocations of the external
\* clone operation
CloneRes(r, e, n, l, c) ==
    [repo |-> r, exc |-> e, ret |-> <<>>, sent |-> n, lines |-> l, clones |-> c]

\* Repo.clone, after a failed invocation with ssh: what the call
\* self.clone(destdir, proto='https') gave follows what was done before
Retried(before, again) ==
    CloneRes(again.repo, again.exc, before.sent + again.sent,
             before.lines \o <<Line("PRINT", S_retrying)>> \o again.lines,
             before.clones \o again.clones)

\* Repo.clone(destdir, proto) once clone_links is read.  oks holds the
\* outcomes of the invocations of the external clone operation, the first
\* one first.
RECURSIVE Invoke(_, _, _, _, _, _, _)
InvokeRetrySameProto(links, credentials, owner, proto, rep, net, oks) ==
    LET url == IF proto = "https" THEN auth(credentials, links.ret.https)
               ELSE links.ret[proto]
        debug == <<Line("DEBUG", url)>>
        failed == <<Line("ERROR", S_cloning_failed)>>
        attempt == <<[url |-> url, ok |-> Head(oks)]>>
    IN  IF links.exc # "none"
        THEN CloneRes(links.repo, links.exc, links.sent, links.lines, <<>>)
        ELSE IF oks = <<>>
        THEN CloneRes(links.repo, "RecursionError", links.sent, links.lines, <<>>)
        ELSE IF Head(oks)
        THEN CloneRes(links.repo, "none", links.sent, links.lines \o debug, attempt)
        ELSE IF proto = "https"
        THEN CloneRes(links.repo, "GitCommandError", links.sent,
                      links.lines \o debug \o failed, attempt)
        ELSE Retried(CloneRes(links.repo, "none", links.sent,
                              links.lines \o debug \o failed, attempt),
                     Invoke(clone_links(links.repo, owner, rep, net), credentials,
                            owner, proto, rep, net, Tail(oks)))

Invoke(links, credentials, owner, proto, rep, net, oks) ==
    LET url == IF proto = "https" THEN auth(credentials, links.ret.https)
               ELSE links.ret[proto]
        debug == <<Line("DEBUG", url)>>
        failed == <<Line("ERROR", S_cloning_failed)>>
        attempt == <<[url |-> url, ok |-> Head(oks)]>>
    IN  IF links.exc # "none"
        THEN CloneRes(links.repo, links.exc, links.sent, links.lines, <<>>)
        ELSE IF oks = <<>>
        THEN CloneRes(links.repo, "RecursionError", links.sent, links.lines, <<>>)
        ELSE IF Head(oks)
        THEN CloneRes(links.repo, "none", links.sent, links.lines \o debug, attempt)
        ELSE IF proto = "https"
        THEN CloneRes(links.repo, "GitCommandError", links.sent,
                      links.lines \o debug \o failed, attempt)
        ELSE Retried(CloneRes(links.repo, "none", links.sent,
                              links.lines \o debug \o failed, attempt),
                     Invoke(clone_links(links.repo, owner, rep, net), credentials,
                            owner, "https", rep, net, Tail(oks)))

\* Repo.clone(destdir, proto)
clone(r, owner, proto, rep, net, oks) ==
    Invoke(clone_links(r, owner, rep, net), r.credentials, owner, proto, rep, net, oks)

\* What is at a path: nothing, a directory that is no git repository, or a
\* git repository with the url of its remote origin (<<>> if it has none)
Absent == [kind |-> "absent", origin |-> <<>>]
PlainDir == [kind |-> "plain", origin |-> <<>>]
WorkingCopy(origin) == [kind |-> "git", origin |-> origin]

\* Repo.from_dir: the reference of the working copy at a path
from_dir(dst) ==
    IF dst.kind = "plain" THEN [exc |-> "DirectoryIsNotRepository", ref |-> <<>>, lines |-> <<>>]
    ELSE IF dst.origin = <<>>
    THEN [exc |-> "MissingRemoteOrigin", ref |-> <<>>, lines |-> <<>>]
    ELSE LET repo_ref_ == from_origin(dst.origin)
         IN  [exc |-> repo_ref_.err, ref |-> repo_ref_.global_name,
              lines |-> <<Line("DEBUG", dst.origin)>>]

\* config.destdir / repo.slug: the directory _clone works on, named by the
\* slug the object holds when it is called
destdir(r, owner, rep, net) == getattr(r, owner, "slug", rep, net).ret

\* _clone of the CLI, from the message "cloning(...)" on: c is what
\* repo.clone gave
Cloned(e, ref, c) ==
    CloneRes(c.repo, c.exc, e.sent + c.sent,
             e.lines \o <<Line("PRINT", ref)>> \o c.lines, c.clones)

\* _clone of the CLI, once repo.exists() has returned.  dst is what is at
\* destdir.
CloneChecked(e, ref, dst, local_clone, owner, proto, rep, net, oks) ==
    IF e.exc # "none" THEN CloneRes(e.repo, e.exc, e.sent, e.lines, <<>>)
    ELSE IF ~e.ret
    THEN CloneRes(e.repo, "RepositoryNotFound", e.sent, e.lines, <<>>)
    ELSE IF dst.kind # "absent"
    THEN CloneRes(e.repo,
                  IF local_clone.exc # "none" THEN local_clone.exc
                  ELSE IF local_clone.ref = ref THEN "RepositoryAlreadyCloned"
                  ELSE "UnrelatedRepository",
                  e.sent, e.lines \o local_clone.lines, <<>>)
    ELSE Cloned(e, ref, clone(e.repo, owner, proto, rep, net, oks))

\* repo.exists() of _clone, after repo.slug was read for destdir
ExistsAfter(slug, owner, rep, net) ==
    After(slug, exists(slug.repo, owner, rep, net))

\* _clone of the CLI.  dirs holds what is at each path under config.destdir.
cli_clone(r, owner, proto, rep, net, oks, dirs) ==
    CloneChecked(ExistsAfter(getattr(r, owner, "slug", rep, net), owner, rep, net),
                 r.ref, dirs[destdir(r, owner, rep, net)],
                 from_dir(dirs[destdir(r, owner, rep, net)]),
                 owner, proto, rep, net, oks)

----------------------------------------------------------------------------
(* Operations on one Repo object, in any order.                            *)

\* The number of operations run on the object, and of those when it is cloned
MaxSteps == 3
MaxCloneSteps == 2

RepoOwner == <<"o">>
RepoSlug == <<"s">>
OtherSlug == <<"t">>

\* The credentials of the object's site: none, or those of user u
RepoCredentials == {NoCredentials, Credentials(<<"u", ":", "p", "w">>)}

\* What the site may answer to the metadata request of o/s: an error
\* status, the repository as requested, the repository renamed to t (the
\* old url still answers), and on Bitbucket the repository with a display
\* name that differs from its slug
RepoReplies(site) ==
    ErrorReplies(site)
    \cup (IF site = S_bitbucket
          THEN {[code |-> 200, name |-> RepoSlug, slug |-> RepoSlug, body |-> "json"],
                [code |-> 200, name |-> OtherSlug, slug |-> OtherSlug, body |-> "json"],
                [code |-> 200, name |-> <<"S">>, slug |-> RepoSlug, body |-> "json"]}
          ELSE {[code |-> 200, name |-> RepoSlug, slug |-> <<>>, body |-> "json"],
                [code |-> 200, name |-> OtherSlug, slug |-> <<>>, body |-> "json"]})

\* What may be at the destination of a clone of o/s
Dests(site, credentials) ==
    {Absent, PlainDir, WorkingCopy(<<>>),
     WorkingCopy(Links(site, RepoOwner, RepoSlug).ssh),
     WorkingCopy(Links(site, RepoOwner, RepoSlug).https),
     WorkingCopy(Links(site, RepoOwner, RepoSlug).html),
     WorkingCopy(auth(credentials, Links(site, RepoOwner, RepoSlug).https)),
     WorkingCopy(Links(site, RepoOwner, OtherSlug).ssh)}

\* The paths under config.destdir a clone of o/s may go to
DestDirs == {RepoSlug, OtherSlug}

\* The outcomes of the successive invocations of the external clone
Outcomes == {<<TRUE, TRUE, TRUE>>, <<FALSE, TRUE, TRUE>>, <<FALSE, FALSE, FALSE>>}

\* The attributes read from outside
Attrs == {"size", "access", "scm", "slug", "full_name", "name"}

\* No call of the resolver or of the parser is under way
ResolverIdle ==
    /\ call = NoCall
    /\ caller = "none"
    /\ guess = FALSE
    /\ name = <<>>
    /\ config = [s \in Sites |-> [credentials |-> None, workspaces |-> <<>>]]
    /\ pc = "repo"
    /\ remote = [r \in Repos |-> Unknown]
    /\ completion = "idle"
    /\ workspaces = <<>>
    /\ site_idx = 0
    /\ cands = <<>>
    /\ local_name = <<>>
    /\ idx = 0
    /\ found = <<>>
    /\ denied = <<>>
    /\ probes = <<>>
    /\ requests = <<>>
    /\ exc = "none"
    /\ repo_ref = <<>>
    /\ exit_code = -1
    /\ printed = <<>>
    /\ log = <<>>
    /\ clones = <<>>
    /\ steps = 0

\* A new object, built from a reference or from an entry of a listing
RepoInit ==
    /\ ResolverIdle
    /\ \E site \in Sites, credentials \in RepoCredentials :
        /\ repo \in {NewRepo(site, RepoOwner, RepoSlug, credentials),
                     from_data(site, RepoOwner, RepoSlug, credentials)}
        /\ site_reply \in RepoReplies(site)
    /\ dest = [d \in DestDirs |-> Absent]
    /\ NoListing

\* A new object that is going to be cloned
CloneInit ==
    /\ ResolverIdle
    /\ \E site \in Sites, credentials \in RepoCredentials :
        /\ repo = NewRepo(site, RepoOwner, RepoSlug, credentials)
        /\ site_reply \in RepoReplies(site)
        /\ \E dst \in Dests(site, credentials) :
              dest = [d \in DestDirs |-> IF d = RepoSlug THEN dst ELSE Absent]
    /\ NoListing

\* The effect of an operation that gave res
Done(op, arg, res) ==
    /\ steps < MaxSteps
    /\ repo' = res.repo
    /\ call' = [op |-> op, arg |-> arg, ret |-> res.ret, exc |-> res.exc, sent |-> res.sent]
    /\ exc' = res.exc
    /\ requests' = requests \o
          [i \in 1..res.sent |-> RepoRequest([site |-> repo.site, workspace |-> RepoOwner])]
    /\ log' = log \o res.lines
    /\ steps' = steps + 1
    /\ UNCHANGED <<resolverVars, site_reply, listVars>>

Nets == {"ok", "fail"}

\* repo.check()
DoCheck ==
    /\ pc = "repo"
    /\ \E net \in Nets : Done("check", <<>>, check(repo, RepoOwner, site_reply, net))
    /\ UNCHANGED <<clones, dest>>

\* repo.exists()
DoExists ==
    /\ pc = "repo"
    /\ \E net \in Nets : Done("exists", <<>>, exists(repo, RepoOwner, site_reply, net))
    /\ UNCHANGED <<clones, dest>>

\* repo.checked_exists()
DoCheckedExists ==
    /\ pc = "repo"
    /\ \E net1 \in Nets, net2 \in Nets :
        /\ net1 = "fail" => net2 = "ok"
        /\ Done("checked_exists", <<>>,
                repo_checked_exists(repo, RepoOwner, site_reply, net1, net2))
    /\ UNCHANGED <<clones, dest>>

\* repo.size, repo.access, ...
DoRead ==
    /\ pc = "repo"
    /\ \E attr \in Attrs, net \in Nets :
        Done("read", attr, getattr(repo, RepoOwner, attr, site_reply, net))
    /\ UNCHANGED <<clones, dest>>

\* cmd_info prints what repo.info() returned
Shown(res) ==
    IF res.exc # "none" THEN res
    ELSE [res EXCEPT !.lines = @ \o [i \in 1..Len(res.ret) |-> Line("PRINT", res.ret[i])]]

\* cmd_info of the CLI
DoInfo ==
    /\ pc = "repo"
    /\ \E net \in Nets :
        Done("info", <<>>, Shown(info(repo, RepoOwner, site_reply, net)))
    /\ UNCHANGED <<clones, dest>>

\* The directories after the external clone operation ran on path dir
AfterClone(dirs, dir, attempts) ==
    IF attempts # <<>> /\ attempts[Len(attempts)].ok
    THEN [dirs EXCEPT ![dir] = WorkingCopy(attempts[Len(attempts)].url)]
    ELSE dirs

\* The state after an operation that clones to the path dir
DoneCloning(op, arg, dir, res) ==
    /\ Done(op, arg, res)
    /\ clones' = clones \o res.clones
    /\ dest' = AfterClone(dest, dir, res.clones)

\* repo.clone(destdir, proto), the destination being the path s
DoClone ==
    /\ pc = "repo"
    /\ steps < MaxCloneSteps
    /\ \E proto \in {"ssh", "https"}, net \in Nets, oks \in Outcomes :
        DoneCloning("clone", proto, RepoSlug,
                    clone(repo, RepoOwner, proto, site_reply, net, oks))

\* _clone(config, repo) of the CLI
DoCliClone ==
    /\ pc = "repo"
    /\ steps < MaxCloneSteps
    /\ \E proto \in {"ssh", "https"}, net \in Nets, oks \in Outcomes :
        DoneCloning("_clone", proto, destdir(repo, RepoOwner, site_reply, net),
                    cli_clone(repo, RepoOwner, proto, site_reply, net, oks, dest))

\* repo.exists() on an object that is going to be cloned
DoExistsFirst ==
    /\ steps < MaxCloneSteps
    /\ DoExists

RepoNext ==
    \/ DoCheck
    \/ DoExists
    \/ DoCheckedExists
    \/ DoRead
    \/ DoInfo

SpecRepo == RepoInit /\ [][RepoNext]_vars

CloneNext ==
    \/ DoExistsFirst
    \/ DoClone
    \/ DoCliClone

SpecClone == CloneInit /\ [][CloneNext]_vars

----------------------------------------------------------------------------
(* The operations of a Repo object that change the site or read its        *)
(* commits: create, delete, rename, last_commits, and the delete command   *)
(* of the CLI.  Each gives a record as the reads do, with the requests it  *)
(* sent by kind in place of their number.                                  *)

OpRes(r, e, v, reqs, l) == [repo |-> r, exc |-> e, ret |-> v, reqs |-> reqs, lines |-> l]

\* What a read gave, as the part of an operation: its requests are
\* metadata requests
AsOp(res) ==
    OpRes(res.repo, res.exc, res.ret, [i \in 1..res.sent |-> "repo"], res.lines)

\* requests.post, requests.put, requests.patch, requests.delete: a
\* connection failure is the exception of the requests library
Send(net) == IF net = "fail" THEN "ConnectionError" ELSE "none"

\* http_get: a connection failure is raised as NetworkError
http_get(net) == IF net = "fail" THEN "NetworkError" ELSE "none"

\* GithubRepo.OWNER_URL, GithubRepo.ORG_URL
OWNER_URL == <<"h", "t", "t", "p", "s", ":", "/", "/", "a", "p", "i", ".", "g", "i", "t", "h", "u", "b", ".", "c", "o", "m", "/", "u", "s", "e", "r", "/", "r", "e", "p", "o", "s">>
ORG_URL(org) == <<"h", "t", "t", "p", "s", ":", "/", "/", "a", "p", "i", ".", "g", "i", "t", "h", "u", "b", ".", "c", "o", "m", "/", "o", "r", "g", "s", "/">> \o org \o <<"/", "r", "e", "p", "o", "s">>

\* GithubRepo.get_user_url
get_user_url(r, owner) ==
    IF r.credentials # NoCredentials /\ owner = r.credentials.username
    THEN OWNER_URL
    ELSE ORG_URL(owner)

\* create(private): one POST; Bitbucket returns self.slug, GitHub the name
\* of the reply, and logs the url it posts to
create(r, owner, reply, net) ==
    LET lines == IF r.site = S_github
                 THEN <<Line("DEBUG", auth(r.credentials, get_user_url(r, owner)))>>
                 ELSE <<>>
        e == IF Send(net) # "none" THEN Send(net)
             ELSE reply_check(r.site, reply, Expected(r.site, "create"),
                              Raises(r.site, "create"))
    IN  OpRes(r, e,
              IF e # "none" THEN <<>>
              ELSE IF r.site = S_bitbucket THEN r.data.slug ELSE reply.name,
              <<"create">>, lines)

\* delete(): one DELETE, 204 expected
delete(r, reply, net) ==
    OpRes(r,
          IF Send(net) # "none" THEN Send(net)
          ELSE reply_check(r.site, reply, Expected(r.site, "delete"), NoRaises),
          <<>>, <<"delete">>, <<>>)

\* rename(new_name), once self.check() has returned: one PUT (PATCH on
\* GitHub); the name comes from the reply
Renamed(checked, reply, net) ==
    IF checked.exc # "none" THEN checked
    ELSE LET e == IF Send(net) # "none" THEN Send(net)
                  ELSE reply_check(checked.repo.site, reply, {200}, NoRaises)
         IN  OpRes(checked.repo, e, IF e # "none" THEN <<>> ELSE reply.name,
                   Append(checked.reqs, "rename"), checked.lines)

\* rename(new_name): a name with a '/' is refused before any request
renameNoCheck(r, owner, new_name, rep, net1, reply, net2) ==
    IF Contains(new_name, "/") THEN OpRes(r, "error", <<>>, <<>>, <<>>)
    ELSE Renamed(OpRes(r, "none", TRUE, <<>>, <<>>), reply, net2)

rename(r, owner, new_name, rep, net1, reply, net2) ==
    IF Contains(new_name, "/") THEN OpRes(r, "error", <<>>, <<>>, <<>>)
    ELSE Renamed(AsOp(check(r, owner, rep, net1)), reply, net2)

\* last_commits(max_), iterated to its end: one GET of url + '/commits';
\* the commits of the reply up to the third.  GitHub answers 409 for an
\* empty repository and logs the url.
last_commits(r, max_, reply, net) ==
    LET lines == IF r.site = S_github THEN <<Line("DEBUG", r.url \o <<"/", "c", "o", "m", "m", "i", "t", "s">>)>> ELSE <<>>
        e == IF http_get(net) # "none" THEN http_get(net)
             ELSE reply_check(r.site, reply,
                              IF r.site = S_github THEN {200, 409} ELSE {200}, NoRaises)
    IN  OpRes(r, e,
              IF e # "none" \/ reply.code = 409 THEN <<>>
              ELSE SubSeq(reply.values, 1, IF Len(reply.values) < 3
                                           THEN Len(reply.values) ELSE 3),
              <<"commits">>, lines)

\* utils.confirm_irrecoverable_operation: the answer typed at the prompt;
\* anything but YES, and a keyboard interrupt, end the process with code 1
S_YES == <<"Y", "E", "S">>
Interrupt == <<"^C">>
S_canceled == <<"-", "-", " ", "c", "a", "n", "c", "e", "l", "e", "d">>

user_confirmAnyCase(answer) ==
    IF answer \in {S_YES, <<"y", "e", "s">>} THEN "none" ELSE "SystemExit"

user_confirm(answer) == IF answer = S_YES THEN "none" ELSE "SystemExit"

\* cmd_repo_delete, once repo.check() has returned: the prompt, then
\* repo.delete() and the message that names the repository
Confirmed(checked, answer, deleted) ==
    IF checked.exc # "none" THEN checked
    ELSE IF user_confirm(answer) # "none"
    THEN OpRes(checked.repo, user_confirm(answer), <<>>, checked.reqs,
               checked.lines \o <<Line("INPUT", answer), Line("PRINT", S_canceled)>>)
    ELSE OpRes(checked.repo, deleted.exc, <<>>, checked.reqs \o deleted.reqs,
               checked.lines \o <<Line("INPUT", answer)>> \o
                   (IF deleted.exc = "none" THEN <<Line("PRINT", checked.repo.ref)>>
                    ELSE <<>>))

\* cmd_repo_delete of the CLI on the object get_repo returned
cmd_repo_delete(r, owner, rep, net1, answer, reply, net2) ==
    Confirmed(AsOp(check(r, owner, rep, net1)), answer, delete(r, reply, net2))

\* What the site answers to an operation that succeeds: the status the
\* operation expects, with the name the repository then has
Success(site, operation, nm) ==
    [code |-> CHOOSE c \in Expected(site, operation) : TRUE, name |-> nm,
     slug |-> <<>>, body |-> "json"]

\* The name-taken reply of create
NameTaken(site) ==
    [code |-> IF site = S_bitbucket THEN 400 ELSE 422, name |-> <<>>, slug |-> <<>>,
     body |-> "json"]

\* The metadata the site serves for o/s once it is named nm, and once it is
\* deleted
Served(site, nm) ==
    [code |-> 200, name |-> nm, slug |-> IF site = S_bitbucket THEN nm ELSE <<>>,
     body |-> "json"]
Gone == [code |-> 404, name |-> <<>>, slug |-> <<>>, body |-> "json"]

\* The names rename is called with
NewNames == {OtherSlug, RepoOwner \o <<"/">> \o OtherSlug}

\* What is typed at the prompt of the delete command
Answers == {S_YES, <<"y", "e", "s">>, Interrupt}

\* The site returns at most MaxCommits commits, the latest first
MaxCommits == 4
DefaultMax == 3
Commits == {[i \in 1..k |-> k + 1 - i] : k \in 0..MaxCommits}

\* The error replies to an operation: a status reply_check has an error
\* for, and one it has none for
OpErrors ==
    {[code |-> 403, name |-> <<>>, slug |-> <<>>, body |-> "json"],
     [code |-> 500, name |-> <<>>, slug |-> <<>>, body |-> "empty"]}

\* What becomes of a request: the connection fails, or the site replies
Fail == [code |-> 0, name |-> <<>>, slug |-> <<>>, body |-> "empty"]
NetOf(outcome) == IF outcome.code = Fail.code THEN "fail" ELSE "ok"

\* What the site answers to the request of the commits
CommitReplies(site) ==
    {[code |-> 200, name |-> <<>>, slug |-> <<>>, body |-> "json", values |-> c] :
        c \in Commits}
    \cup (IF site = S_github
          THEN {[code |-> 409, name |-> <<>>, slug |-> <<>>, body |-> "json",
                 values |-> <<>>]}
          ELSE {})
    \cup {[code |-> r.code, name |-> <<>>, slug |-> <<>>, body |-> r.body,
           values |-> <<>>] : r \in OpErrors \cup {Fail}}

\* The number of operations run on the object when the site is changed
MaxOpSteps == 3

\* A new object whose repository the site serves, or does not
OpsInit ==
    /\ ResolverIdle
    /\ \E site \in Sites, credentials \in RepoCredentials :
        /\ repo = NewRepo(site, RepoOwner, RepoSlug, credentials)
        /\ site_reply \in {Served(site, RepoSlug), Gone}
    /\ dest = [d \in DestDirs |-> Absent]
    /\ NoListing

\* The effect of an operation that gave res, after which the site serves
\* served for the repository
DoneOp(op, arg, res, served) ==
    /\ steps < MaxOpSteps
    /\ exit_code = -1
    /\ repo' = res.repo
    /\ call' = [op |-> op, arg |-> arg, ret |-> res.ret, exc |-> res.exc,
                sent |-> Len(res.reqs), reqs |-> res.reqs, lines |-> res.lines]
    /\ exc' = res.exc
    /\ requests' = requests \o
          [i \in 1..Len(res.reqs) |->
              [op |-> res.reqs[i], site |-> repo.site, workspace |-> RepoOwner]]
    /\ log' = log \o res.lines
    /\ steps' = steps + 1
    /\ site_reply' = served
    /\ exit_code' = IF res.exc = "SystemExit" THEN 1 ELSE exit_code
    /\ UNCHANGED <<caller, guess, name, config, remote, pc, completion, workspaces,
                   site_idx, cands, local_name, idx, found, denied, probes, repo_ref,
                   printed, clones, dest, listVars>>

\* What the site serves after an operation that succeeded
ServedAfter(res, served) == IF res.exc = "none" THEN served ELSE site_reply

\* The state after create, delete and rename: the site serves the
\* repository, serves it no more, serves it under its new name
DoneCreate(res) ==
    DoneOp("create", <<>>, res, ServedAfter(res, Served(repo.site, RepoSlug)))

DoneDelete(op, arg, res) ==
    DoneOp(op, arg, res,
           IF res.exc = "none" /\ res.reqs # <<>> /\ res.reqs[Len(res.reqs)] = "delete"
           THEN Gone ELSE site_reply)

DoneRename(new_name, res) ==
    DoneOp("rename", new_name, res, ServedAfter(res, Served(repo.site, res.ret)))

\* repo.create()
DoCreate ==
    /\ pc = "repo"
    /\ \E reply \in {Success(repo.site, "create", RepoSlug), NameTaken(repo.site), Fail}
                    \cup OpErrors :
        DoneCreate(create(repo, RepoOwner, reply, NetOf(reply)))

\* repo.delete()
DoDelete ==
    /\ pc = "repo"
    /\ \E reply \in {Success(repo.site, "delete", <<>>), Fail} \cup OpErrors :
        DoneDelete("delete", <<>>, delete(repo, reply, NetOf(reply)))

\* repo.rename(new_name)
DoRename ==
    /\ pc = "repo"
    /\ \E new_name \in NewNames, net1 \in Nets,
          reply \in {Success(repo.site, "rename", OtherSlug), Fail} \cup OpErrors :
        /\ (net1 = "fail" \/ Contains(new_name, "/")) => reply = Fail
        /\ Contains(new_name, "/") => net1 = "ok"
        /\ DoneRename(new_name,
                      rename(repo, RepoOwner, new_name, site_reply, net1, reply,
                             NetOf(reply)))

\* list(repo.last_commits(max_))
DoLastCommits ==
    /\ pc = "repo"
    /\ \E max_ \in {1, DefaultMax}, reply \in CommitReplies(repo.site) :
        DoneOp("last_commits", [max_ |-> max_, values |-> reply.values, code |-> reply.code],
               last_commits(repo, max_, reply, NetOf(reply)),
               site_reply)

\* The delete command, on the object get_repo has just returned
DoCmdRepoDelete ==
    /\ pc = "repo"
    /\ steps = 0
    /\ \E answer \in Answers, net1 \in Nets,
          reply \in {Success(repo.site, "delete", <<>>), Fail} \cup OpErrors :
        /\ (net1 = "fail" \/ answer # S_YES) => reply = Fail
        /\ net1 = "fail" => answer = S_YES
        /\ DoneDelete("cmd_repo_delete", answer,
                      cmd_repo_delete(repo, RepoOwner, site_reply, net1, answer,
                                      reply, NetOf(reply)))

\* A read or an existence check between the operations
DoReadOrCheck ==
    /\ exit_code = -1
    /\ steps < MaxOpSteps
    /\ (DoRead \/ DoCheck)

OpsNext ==
    \/ DoCreate
    \/ DoDelete
    \/ DoRename
    \/ DoLastCommits
    \/ DoCmdRepoDelete
    \/ DoReadOrCheck

SpecOps == OpsInit /\ [][OpsNext]_vars

----------------------------------------------------------------------------
(* Workspaces: BitbucketWorkspace and GithubWorkspace, their check and     *)
(* the generator ls_repos returns.  The site serves the listing of a       *)
(* workspace as a chain of pages; a page is requested by its URL.          *)

\* BitbucketWorkspace.BASE_URL.format(name.workspace)
WorkspaceBaseUrl(workspace) ==
    S_api_bitbucket \o workspace \o <<"?", "s", "o", "r", "t", "=", "s", "l", "u", "g">>

\* GithubWorkspace.USER_URL.format(user=...)
USER_URL(user) == <<"h", "t", "t", "p", "s", ":", "/", "/", "a", "p", "i", ".", "g", "i", "t", "h", "u", "b", ".", "c", "o", "m", "/", "u", "s", "e", "r", "s", "/">> \o user \o <<"/", "r", "e", "p", "o", "s">>

S_type_owner == <<"?", "t", "y", "p", "e", "=", "o", "w", "n", "e", "r">>

\* str.lower, on the letters the names here are written with
lower(s) ==
    [i \in 1..Len(s) |-> CASE s[i] = "O" -> "o" [] s[i] = "U" -> "u" [] OTHER -> s[i]]

\* GithubWorkspace.get_user_url
WorkspaceUserUrl(credentials, workspace) ==
    IF credentials # NoCredentials /\ lower(workspace) = lower(credentials.username)
    THEN OWNER_URL \o S_type_owner
    ELSE USER_URL(workspace)

\* The workspace whose listing is read, and the credentials it is read
\* with: none, those of the workspace's owner, those of another user
ListOwner == <<"O">>
ListCredentials ==
    {NoCredentials, Credentials(<<"o", ":", "p", "w">>), Credentials(<<"u", ":", "p", "w">>)}

\* The slug of the i-th repository of the workspace: r, rr, rrr, ...
SlugOf(i) == [j \in 1..i |-> "r"]

\* The URL of the k-th page of the listing served at base, as the site
\* writes it into the reply of page k-1
PageUrl(base, k) ==
    IF k = 1 THEN base
    ELSE base \o <<"&", "p", "a", "g", "e", "=">> \o [j \in 1..k |-> "i"]

\* The URL a request is sent to, without the user part
Plain(url) ==
    LET rest == Drop(url, Len(S_https))
        at == Find(rest, "@")
    IN  IF at = 0 THEN url ELSE S_https \o Drop(rest, at)

\* The URLs at which the site serves the listing l of user or organization
\* workspace: Bitbucket at one, GitHub organizations at the organization
\* endpoint, GitHub users at the user endpoint and, for the user's own
\* credentials, at the endpoint of the authenticated user
ServedAt(site, l, credentials, workspace) ==
    IF l.kind = "missing" THEN {}
    ELSE IF site = S_bitbucket THEN {WorkspaceBaseUrl(workspace)}
    ELSE IF l.kind = "org" THEN {ORG_URL(workspace)}
    ELSE {USER_URL(workspace)} \cup
         (IF credentials # NoCredentials /\ lower(credentials.username) = lower(workspace)
          THEN {OWNER_URL \o S_type_owner} ELSE {})

\* What the site answers to a URL it serves nothing at
NotFound == [code |-> 404, body |-> "json", values |-> <<>>, next |-> None]

\* The reply with page k of the chain served at base: the page and the
\* link to the page after it, if there is one
PageReply(l, base, k) ==
    [code |-> l.chain[k].code, body |-> l.chain[k].body, values |-> l.chain[k].values,
     next |-> IF k < Len(l.chain) /\ l.chain[k].code = 200
              THEN PageUrl(base, k + 1) ELSE None]

\* One of the pages found at a URL, NotFound if there is none
OneOf(l, hits) ==
    IF hits = {} THEN NotFound
    ELSE PageReply(l, (CHOOSE h \in hits : TRUE)[1], (CHOOSE h \in hits : TRUE)[2])

\* The reply of the site to a GET of url: the page of the chain that has
\* this URL
Serve(site, l, credentials, workspace, url) ==
    OneOf(l, {h \in ServedAt(site, l, credentials, workspace) \X (1..Len(l.chain)) :
                PageUrl(h[1], h[2]) = Plain(url)})

\* The site's api_check of a reply, with the default expected and raises
WorkspaceApiCheck(site, reply) ==
    IF site = S_bitbucket THEN BitbucketApiCheck(reply, {200}, NoRaises)
    ELSE GithubApiCheck(reply, {200}, NoRaises)

\* What a workspace operation gives: the object or generator after it, the
\* exception raised, the URLs requested and the lines logged
WsRes(obj, e, urls, l) == [obj |-> obj, exc |-> e, urls |-> urls, lines |-> l]

\* BitbucketWorkspace(name, credentials), GithubWorkspace(name, credentials)
Workspace(site, credentials, workspace, url) ==
    [site |-> site, credentials |-> credentials, name |-> workspace, url |-> url]

\* GithubWorkspace.__init__ once the organization endpoint has answered:
\* on 404 the user's URL is taken
OrgProbed(credentials, workspace, url, reply) ==
    IF reply.code = 404
    THEN WsRes(Workspace(S_github, credentials, workspace,
                         WorkspaceUserUrl(credentials, workspace)),
               "none", <<url>>, <<Line("INFO", workspace)>>)
    ELSE WsRes(Workspace(S_github, credentials, workspace, ORG_URL(workspace)),
               "none", <<url>>, <<>>)

\* GithubWorkspace.__init__ from its request of the organization endpoint
OrgProbe(credentials, workspace, l, net, url) ==
    IF http_get(net) # "none" THEN WsRes(NoWorkspace, http_get(net), <<url>>, <<>>)
    ELSE OrgProbed(credentials, workspace, url, Serve(S_github, l, credentials, workspace, url))

\* BitbucketWorkspace.__init__, GithubWorkspace.__init__
WorkspaceInit(site, credentials, workspace, l, net) ==
    IF site = S_bitbucket
    THEN WsRes(Workspace(site, credentials, workspace, WorkspaceBaseUrl(workspace)),
               "none", <<>>, <<>>)
    ELSE OrgProbe(credentials, workspace, l, net, auth(credentials, ORG_URL(workspace)))

\* Workspace.check once its URL is authenticated: one request
CheckAt(w, l, net, url) ==
    IF http_get(net) # "none" THEN WsRes(w, http_get(net), <<url>>, <<>>)
    ELSE WsRes(w, WorkspaceApiCheck(w.site, Serve(w.site, l, w.credentials, w.name, url)),
               <<url>>, <<>>)

\* Workspace.check
WorkspaceCheck(w, l, net) == CheckAt(w, l, net, auth(w.credentials, w.url))

\* ls_repos(): a generator whose body has not started.  Nothing is
\* requested before the first item is asked for.  With the generator are
\* kept the items it has yielded and the requests it has sent.
NewGenerator ==
    [state |-> "created", next_link |-> None, page |-> <<>>, yielded |-> <<>>, sent |-> <<>>]

\* A generator that ended, by return or by an exception
Closed(g) == [g EXCEPT !.state = "ended", !.page = <<>>]

\* logging.debug(next_link) for each of these requests
Debugged(urls) == [i \in 1..Len(urls) |-> Line("DEBUG", urls[i])]

\* yield: the generator stops with the first item of its page yielded
Yield(g, urls) ==
    WsRes([g EXCEPT !.state = "suspended", !.page = Tail(g.page),
                    !.yielded = Append(g.yielded, Head(g.page))],
          "none", urls, Debugged(urls))

\* The generator with the next link and the items of a reply taken
Turned(w, g, reply) ==
    [g EXCEPT !.next_link = reply.next,
              !.page = [i \in 1..Len(reply.values) |->
                           from_data(w.site, w.name, reply.values[i], w.credentials)]]

\* The loop of ls_repos from the generator's position up to its next
\* yield, its return or an exception: the items of the page read last are
\* yielded one by one; with none left the next link, authenticated, is
\* requested, the reply checked, and its next link and items taken.  A
\* page without a next link ends the loop.  failing is the request of
\* this run that meets a connection failure (0: none), urls those sent.
RECURSIVE Resume(_, _, _, _, _)

\* The loop after the reply to its request was checked
Replied(w, l, g, failing, sent, reply, e) ==
    IF e # "none" THEN WsRes(Closed(g), e, sent, Debugged(sent))
    ELSE Resume(w, l, Turned(w, g, reply), failing, sent)

\* The loop from the request of its next link on
Request(w, l, g, failing, urls, url) ==
    IF failing = Len(urls) + 1
    THEN WsRes(Closed(g), "NetworkError", Append(urls, url), Debugged(urls))
    ELSE Replied(w, l, g, failing, Append(urls, url),
                 Serve(w.site, l, w.credentials, w.name, url),
                 WorkspaceApiCheck(w.site, Serve(w.site, l, w.credentials, w.name, url)))

ResumeEndOnEmptyPage(w, l, g, failing, urls) ==
    IF g.page # <<>> THEN Yield(g, urls)
    ELSE IF g.next_link = None \/ Len(urls) >= 1
    THEN WsRes(Closed(g), "none", urls, Debugged(urls))
    ELSE Request(w, l, g, failing, urls, auth(w.credentials, g.next_link))

Resume(w, l, g, failing, urls) ==
    IF g.page # <<>> THEN Yield(g, urls)
    ELSE IF g.next_link = None
    THEN WsRes(Closed(g), "none", urls, Debugged(urls))
    ELSE Request(w, l, g, failing, urls, auth(w.credentials, g.next_link))

\* The generator's body starts with next_link = self.url
Started(w, g) == IF g.state = "created" THEN [g EXCEPT !.next_link = w.url] ELSE g

\* A generator that returns raises StopIteration in next()
Stopped(res) ==
    IF res.exc = "none" /\ res.obj.state = "ended"
    THEN [res EXCEPT !.exc = "StopIteration"]
    ELSE res

\* next(generator)
next(w, l, g, failing) ==
    IF g.state = "ended" THEN WsRes(g, "StopIteration", <<>>, <<>>)
    ELSE Stopped(Resume(w, l, Started(w, g), failing, <<>>))

\* The listings: at most MaxPages pages of at most MaxPerPage repositories
\* each, the repositories numbered through the pages
MaxPages == 2
MaxPerPage == 2
MaxCalls == 2

RECURSIVE SumTo(_, _)
SumTo(sizes, k) == IF k = 0 THEN 0 ELSE SumTo(sizes, k - 1) + sizes[k]

\* The pages of a listing whose pages have these sizes, all answered 200
PagesOf(sizes) ==
    [k \in 1..Len(sizes) |->
        [code |-> 200, body |-> "json",
         values |-> [i \in 1..sizes[k] |-> SlugOf(SumTo(sizes, k - 1) + i)]]]

\* The replies with an error status a page may be answered with
PageErrors ==
    {[code |-> 403, body |-> "json", values |-> <<>>],
     [code |-> 500, body |-> "empty", values |-> <<>>],
     [code |-> 500, body |-> "html", values |-> <<>>]}

\* The chains: every page answered 200, or the last one with an error
Chains ==
    LET good == {PagesOf(sizes) : sizes \in SeqsUpTo(0..MaxPerPage, MaxPages) \ {<<>>}}
    IN  good \cup {[c EXCEPT ![Len(c)] = e] : c \in good, e \in PageErrors}

Listings(site) ==
    {[kind |-> "missing", chain |-> <<>>]}
    \cup [kind : IF site = S_bitbucket THEN {"org"} ELSE {"org", "user"}, chain : Chains]

\* A process that is going to list a workspace of a site
ListInit ==
    /\ ResolverIdle
    /\ repo \in {NewRepo(site, ListOwner, RepoSlug, NoCredentials) : site \in Sites}
    /\ site_reply = Unknown
    /\ dest = [d \in DestDirs |-> Absent]
    /\ wks = NoWorkspace
    /\ listing \in Listings(repo.site)
    /\ gens = <<>>

\* The effect of a workspace operation: the call is kept with the URLs it
\* requested and the lines it logged
DoneList(op, arg, res) ==
    /\ exit_code = -1
    /\ call' = [op |-> op, arg |-> arg, exc |-> res.exc, urls |-> res.urls,
                lines |-> res.lines]
    /\ exc' = res.exc
    /\ UNCHANGED <<caller, guess, name, config, remote, pc, completion, workspaces,
                   site_idx, cands, local_name, idx, found, denied, probes, requests,
                   repo_ref, exit_code, printed, repo, site_reply, log, clones, dest,
                   listing>>

\* The state after the constructor gave res
Constructed(credentials, res) ==
    /\ DoneList("Workspace", credentials, res)
    /\ wks' = res.obj

\* BitbucketWorkspace(name, credentials), GithubWorkspace(name, credentials)
DoWorkspace ==
    /\ wks = NoWorkspace
    /\ exc = "none"
    /\ \E credentials \in ListCredentials, net \in Nets :
        Constructed(credentials, WorkspaceInit(repo.site, credentials, ListOwner, listing, net))
    /\ UNCHANGED <<gens, steps>>

\* ws.check()
DoWorkspaceCheck ==
    /\ wks # NoWorkspace
    /\ \E net \in Nets :
        DoneList("check", <<>>, WorkspaceCheck(wks, listing, net))
    /\ UNCHANGED <<wks, gens, steps>>

\* ws.ls_repos(): the caller takes the new generator for the one it had;
\* steps counts the calls
DoLsRepos ==
    /\ wks # NoWorkspace
    /\ steps < MaxCalls
    /\ DoneList("ls_repos", steps + 1, WsRes(NewGenerator, "none", <<>>, <<>>))
    /\ gens' = <<NewGenerator>>
    /\ steps' = steps + 1
    /\ UNCHANGED wks

\* The requests of a call, the last one marked if the connection failed
Sent(res) ==
    [i \in 1..Len(res.urls) |->
        [url |-> res.urls[i],
         failed |-> (res.exc = "NetworkError" /\ i = Len(res.urls))]]

\* The state after next() on the generator gave res
Advanced(failing, res) ==
    /\ failing <= Len(res.urls)
    /\ DoneList("next", steps, res)
    /\ gens' = <<[res.obj EXCEPT !.sent = @ \o Sent(res)]>>

\* next() on the generator, as the for loop of cmd_ls_repos does
DoNextRepo ==
    /\ gens # <<>>
    /\ gens[1].state # "ended"
    /\ \E failing \in 0..MaxPages :
        Advanced(failing, next(wks, listing, gens[1], failing))
    /\ UNCHANGED <<wks, steps>>

ListNext ==
    \/ DoWorkspace
    \/ DoWorkspaceCheck
    \/ DoLsRepos
    \/ DoNextRepo

SpecList == ListInit /\ [][ListNext]_vars

----------------------------------------------------------------------------
(* Properties of Completion and get_repo, checked under Spec.              *)

\* The subclasses of ripio.error, which the CLI prints before it exits 1
DomainErrors ==
    {"RepositoryNotFound", "RemoteError", "ConfigError", "MissingConfig",
     "BadRepositoryName", "BadWorkspaceName", "UnsupportedSite",
     "DirectoryAlreadyExists", "DirectoryIsNotRepository", "WrongCompletion",
     "AccessDenied", "AlreadyExists", "MissingRemoteOrigin",
     "RepositoryAlreadyCloned", "UnrelatedRepository", "RateLimitExceeded",
     "NetworkError"}

\* 'site:workspace/name' of a workspace and the name that is searched
RefText(ws) == ws.site \o <<":">> \o ws.workspace \o <<"/">> \o local_name

RefTexts(wss) == [i \in 1..Len(wss) |-> RefText(wss[i])]

\* What the remote site holds for the repository of a candidate workspace
RemoteOf(ws) == remote[<<ws.site, ws.workspace>>]

\* The failures of a request that are neither not-found nor access denied:
\* the three domain errors, and what the reading of an error reply's body
\* raises
Propagating ==
    {"NetworkError", "RemoteError", "RateLimitExceeded",
     "TypeError", "KeyError", "ValueError"}

\* A short name: a bare slug, or site:slug with a known site or abbreviation
IsShortName(text) ==
    /\ ~Contains(text, "/")
    /\ ~IsUrl(text)
    /\ \/ Count(text, ":") = 0
       \/ Count(text, ":") = 1 /\ SitePrefix(text) \in {S_bitbucket, S_bb, S_github, S_gh}

Ended == completion \in {"returned", "raised"}

\* C1: when Completion has returned, found lists the references of the
\* candidates whose repository exists under the searched name, in the order
\* of the candidate list, and denied those of the candidates to which
\* access was denied, in the same order.
C1_FoundInCandidateOrder ==
    completion = "returned"
        => /\ found = RefTexts(SelectSeq(cands, LAMBDA ws :
                        checked_exists(ws.site, local_name, RemoteOf(ws), "ok", "ok").result
                            = "True"))
           /\ denied = RefTexts(SelectSeq(cands, LAMBDA ws :
                        checked_exists(ws.site, local_name, RemoteOf(ws), "ok", "ok").result
                            = "AccessDenied"))

\* Candidates [B, A] of bitbucket both host r: found lists B before A
C1_Witness ==
    /\ completion = "returned"
    /\ Len(cands) = 2
    /\ cands[1].workspace = <<"B">>
    /\ cands[2].workspace = <<"A">>
    /\ found = <<S_bitbucket \o <<":", "B", "/", "r">>, S_bitbucket \o <<":", "A", "/", "r">>>>

\* C2, as stated: Completion of a short name ends in one of three ways:
\* ConfigError with an empty candidate list and no existence check made,
\* WrongCompletion with candidates and both found and denied empty, or a
\* normal return.
C2_ThreeEndings ==
    (Ended /\ IsShortName(name))
        => \/ /\ completion = "raised" /\ exc = "ConfigError"
              /\ workspaces = <<>> /\ probes = <<>>
           \/ /\ completion = "raised" /\ exc = "WrongCompletion"
              /\ workspaces # <<>> /\ found = <<>> /\ denied = <<>>
           \/ completion = "returned"

\* C2, amended: Completion of a short name ends in one of four ways:
\* ConfigError when the candidate list was built and is empty (no existence
\* check made); a connection failure while the candidates are built, or a
\* failure of an existence check other than not-found and access denied,
\* propagates (NetworkError, RemoteError, RateLimitExceeded, or the
\* TypeError, KeyError or ValueError of an error reply whose body cannot be
\* read);
\* WrongCompletion when candidates exist and the scan ends with found and
\* denied empty; otherwise a normal return, with found or denied not empty.
C2_FourEndings ==
    (Ended /\ IsShortName(name))
        => /\ \/ /\ completion = "raised" /\ exc = "ConfigError"
                 /\ site_idx > Len(SiteOrder)
                 /\ workspaces = <<>> /\ probes = <<>>
                 /\ \A i \in 1..Len(requests) : requests[i].op # "repo"
              \/ /\ completion = "raised" /\ exc \in Propagating
                 /\ \/ site_idx <= Len(SiteOrder) /\ exc = "NetworkError" /\ probes = <<>>
                    \/ /\ probes # <<>>
                       /\ probes[Len(probes)].result = exc
              \/ /\ completion = "raised" /\ exc = "WrongCompletion"
                 /\ workspaces # <<>> /\ found = <<>> /\ denied = <<>>
                 /\ Len(probes) = Len(cands)
              \/ /\ completion = "returned"
                 /\ found # <<>> \/ denied # <<>>
                 /\ Len(probes) = Len(cands)
           /\ (site_idx > Len(SiteOrder) /\ workspaces = <<>>) => exc = "ConfigError"

\* One candidate was denied and none matched: Completion returned
C2_Witness ==
    /\ name = N_r
    /\ completion = "returned"
    /\ found = <<>>
    /\ Len(denied) = 1
    /\ Len(cands) = 2

\* C3: Completion of a name that parses as a full reference, with
\* workspaces configured and no request failing, finishes without raising
\* and without any existence check.
C3_FullReferenceReturns ==
    (/\ caller = "Completion" /\ pc = "done"
     /\ RepoRef(name, None).err = "none"
     /\ workspaces # <<>>
     /\ exc \notin Propagating)
        => /\ completion = "returned"
           /\ exc = "none"
           /\ probes = <<>>

\* C4: for a name site:name whose prefix is github, gh, bitbucket or bb the
\* candidates are narrowed to the workspaces of that site before the scan:
\* every existence check and every repository request goes to that site,
\* and every entry of found and of denied is a reference on that site.
C4_SitePrefixNarrows ==
    (/\ Count(name, ":") = 1 /\ ~Contains(name, "/")
     /\ SitePrefix(name) \in {S_github, S_gh, S_bitbucket, S_bb})
        => LET site == IF SitePrefix(name) \in {S_github, S_gh} THEN S_github
                       ELSE S_bitbucket
           IN  /\ \A i \in 1..Len(requests) :
                      requests[i].op = "repo" => requests[i].site = site
               /\ \A i \in 1..Len(probes) : probes[i].site = site
               /\ \A i \in 1..Len(found) : StartsWith(found[i], site \o <<":">>)
               /\ \A i \in 1..Len(denied) : StartsWith(denied[i], site \o <<":">>)
               /\ pc \in {"scan", "final"}
                    => cands = SelectSeq(workspaces, LAMBDA ws : ws.site = site)

\* gh:r with a workspace on each site: only the github one is found
C4_Witness ==
    /\ name = S_gh \o <<":">> \o N_r
    /\ completion = "returned"
    /\ Len(found) = 1
    /\ \E i, j \in 1..Len(workspaces) :
           workspaces[i].site = S_bitbucket /\ workspaces[j].site = S_github
    /\ Len(cands) < Len(workspaces)

\* C5: the existence checks are made on the candidates in list order, one
\* each; a check that returns true adds the reference to found, access
\* denied adds it to denied and the scan goes on, not-found records
\* nothing and the scan goes on, and any other failure ends Completion with
\* that failure, no later candidate being checked.  A scan that no such
\* failure ended has checked every candidate.
C5_OutcomeHandling ==
    /\ Len(probes) <= Len(cands)
    /\ \A k \in 1..Len(probes) :
           /\ probes[k].site = cands[k].site
           /\ probes[k].workspace = cands[k].workspace
           /\ probes[k].result \in {"True", "False", "AccessDenied"} \cup Propagating
           /\ probes[k].result \in Propagating
                => /\ k = Len(probes)
                   /\ completion = "raised"
                   /\ exc = probes[k].result
                   /\ pc = "done"
    /\ found = RefTexts(SelectSeq(probes, LAMBDA q : q.result = "True"))
    /\ denied = RefTexts(SelectSeq(probes, LAMBDA q : q.result = "AccessDenied"))
    /\ (pc = "scan" /\ probes # <<>>) => probes[Len(probes)].result \notin Propagating
    /\ pc = "scan" => Len(probes) = idx - 1
    /\ (completion = "returned" \/ (completion = "raised" /\ exc = "WrongCompletion"))
          => Len(probes) = Len(cands)

\* A denied candidate and a missing one were passed and a third one found
C5_Witness ==
    /\ completion = "returned"
    /\ Len(probes) = 3
    /\ probes[1].result = "AccessDenied"
    /\ probes[2].result = "False"
    /\ probes[3].result = "True"
    /\ Len(found) = 1
    /\ Len(denied) = 1

\* C6: the candidate list is the bitbucket candidates followed by the
\* github candidates; the candidates of a site are the credentials'
\* username, if the site has credentials, followed by its configured
\* workspaces in configuration order.
C6_CandidateOrder ==
    LET names(site) ==
            IF config[site].credentials = None THEN config[site].workspaces
            ELSE <<config[site].credentials>> \o config[site].workspaces
        candidates(site) ==
            [i \in 1..Len(names(site)) |-> [site |-> site, workspace |-> names(site)[i]]]
    IN  /\ (completion = "running" /\ site_idx = 2) => workspaces = candidates(S_bitbucket)
        /\ site_idx = 3
              => workspaces = candidates(S_bitbucket) \o candidates(S_github)

\* Both sites have credentials, bitbucket has workspaces B and A
C6_Witness ==
    /\ site_idx = 3
    /\ config[S_bitbucket].credentials # None
    /\ config[S_github].credentials # None
    /\ config[S_bitbucket].workspaces = <<<<"B">>, <<"A">>>>
    /\ Len(workspaces) = 4
    /\ workspaces[4].site = S_github

\* C7: get_repo, once Completion has returned: one completion found is the
\* repository used; several are printed and the process exits with a
\* failing code; none found but some denied ends in a domain error
\* (ripio.error).
C7_CallerPolicy ==
    (caller = "get_repo" /\ completion = "returned" /\ pc = "done")
        => /\ Len(found) = 1
                => repo_ref = found[1] /\ exc = "none" /\ exit_code = -1
           /\ Len(found) > 1
                => printed = found /\ exit_code = 1 /\ exc = "none"
           /\ (Len(found) = 0 /\ denied # <<>>)
                => exc \in DomainErrors

----------------------------------------------------------------------------
(* Properties of the reference parser, checked under SpecRef.              *)

\* C8, as stated: for every string s that RepoRef accepts as a
\* site:owner/slug reference (owner and slug not empty), RepoRef(s).global_name
\* (which is also str(RepoRef(s))) equals s.
C8_RoundTripEveryAcceptedRef ==
    (/\ call.op = "RepoRef" /\ ~IsUrl(call.arg) /\ call.result.err = "none"
     /\ call.result.workspace # <<>> /\ call.result.slug # <<>>)
        => call.result.global_name = call.arg

\* C8, amended: for every string s that RepoRef accepts as a
\* site:owner/slug reference, global_name equals s when the site prefix of s
\* is a site's own name (bitbucket, github); when the prefix is an
\* abbreviation (bb, gh), global_name is s with the prefix replaced by the
\* name of the site.
C8_RoundTripCanonicalSite ==
    (call.op = "RepoRef" /\ ~IsUrl(call.arg) /\ call.result.err = "none")
        => /\ Find(call.arg, ":") > 0
           /\ SitePrefix(call.arg) \in {S_bitbucket, S_github, S_bb, S_gh}
           /\ SitePrefix(call.arg) \in {S_bitbucket, S_github}
                => call.result.global_name = call.arg
           /\ SitePrefix(call.arg) = S_bb
                => call.result.global_name = S_bitbucket \o Drop(call.arg, Len(S_bb))
           /\ SitePrefix(call.arg) = S_gh
                => call.result.global_name = S_github \o Drop(call.arg, Len(S_gh))

\* A reference with the site's own name was parsed and came back unchanged
C8_Witness ==
    /\ call.op = "RepoRef"
    /\ call.result.err = "none"
    /\ call.arg = S_github \o <<":", "o", "/", "s">>
    /\ call.result.global_name = call.arg
    /\ call.result.slug = <<"s">>

\* C9: the four URL forms of repository owner/slug on a known host
\* (https, https with .git, git@, ssh://) parse with from_origin to equal
\* references, equal to RepoRef('site:owner/slug').
C9_UrlFormsEqual ==
    call.op = "url_forms"
        => \A f \in FormNames :
               /\ call.forms[f].err = "none"
               /\ call.result.err = "none"
               /\ RefEq(call.forms[f], call.result)
               /\ \A g \in FormNames : RefEq(call.forms[f], call.forms[g])

\* C10: RepoRef of a URL-like string whose host is not in the host table,
\* or that the pattern of its scheme does not match, raises
\* BadRepositoryName and nothing else.
C10_BadUrlRaisesBadRepositoryName ==
    (/\ call.op = "RepoRef"
     /\ IsUrl(call.arg)
     /\ \/ OriginFields(call.arg) = <<>>
        \/ OriginFields(call.arg)[1] \notin DOMAIN sites)
        => call.result.err = "BadRepositoryName"

\* C11: a reference string that is not a URL and has not exactly one '/'
\* raises BadRepositoryName; a workspace string with more than one ':' or
\* with a '/' raises BadWorkspaceName; a site prefix (or site argument,
\* when the string has no prefix) other than bitbucket, bb, github and gh
\* raises UnsupportedSite, for a workspace and for a reference; a
\* WorkspaceName that is built has site bitbucket or github, bb and
\* bitbucket giving bitbucket, gh and github giving github.
C11_ErrorKinds ==
    /\ (call.op = "RepoRef" /\ ~IsUrl(call.arg) /\ Count(call.arg, "/") # 1)
          => call.result.err = "BadRepositoryName"
    /\ (/\ call.op = "RepoRef" /\ ~IsUrl(call.arg) /\ Count(call.arg, "/") = 1
        /\ Count(call.arg, ":") = 1 /\ Find(call.arg, ":") < Find(call.arg, "/")
        /\ SitePrefix(call.arg) \notin {S_bitbucket, S_bb, S_github, S_gh})
          => call.result.err = "UnsupportedSite"
    /\ call.op = "WorkspaceName"
          => LET text == call.arg
                 given == IF Count(text, ":") = 1 THEN SitePrefix(text) ELSE call.site
             IN  /\ (Count(text, ":") > 1 \/ Contains(text, "/"))
                       => call.result.err = "BadWorkspaceName"
                 /\ (/\ Count(text, ":") <= 1 /\ ~Contains(text, "/")
                     /\ given # None
                     /\ given \notin {S_bitbucket, S_bb, S_github, S_gh})
                       => call.result.err = "UnsupportedSite"
                 /\ call.result.err = "none"
                       => /\ call.result.site \in {S_bitbucket, S_github}
                          /\ given \in {S_bitbucket, S_bb} <=> call.result.site = S_bitbucket
                          /\ given \in {S_github, S_gh} <=> call.result.site = S_github

\* bb:foo was built and is a workspace of bitbucket
C11_Witness ==
    /\ call.op = "WorkspaceName"
    /\ call.arg = S_bb \o <<":">> \o S_foo
    /\ call.site = None
    /\ call.result.err = "none"
    /\ call.result.site = S_bitbucket
    /\ call.result.workspace = S_foo

\* C12: get_repo of a bare owner/slug name (one '/', no site prefix, not a
\* URL) ends without an exception, with the reference of that owner/slug
\* on one of the sites.  Checked under Spec.
C12_BareReferenceAccepted ==
    (/\ caller = "get_repo" /\ pc = "done"
     /\ ~IsUrl(name) /\ Count(name, ":") = 0 /\ Count(name, "/") = 1)
        => /\ exc = "none"
           /\ repo_ref \in {site \o <<":">> \o name : site \in Sites}

\* C13: Credentials of a string with a ':' is built, its username the text
\* before the first ':' and its password all the text after it, further
\* ':' included; two Credentials are equal iff their usernames are equal
\* and their passwords are equal.  Checked under SpecRef.
C13_SplitOnFirstColon ==
    call.op = "Credentials"
        => /\ Contains(call.arg, ":")
                => /\ call.result.err = "none"
                   /\ call.result.username = SubSeq(call.arg, 1, Find(call.arg, ":") - 1)
                   /\ call.result.password = Drop(call.arg, Find(call.arg, ":"))
           /\ (call.result.err = "none" /\ call.result2.err = "none")
                => (call.eq <=> /\ call.result.username = call.result2.username
                                /\ call.result.password = call.result2.password)

\* C19: a GithubWorkspace whose name is the username of the site's
\* credentials sends no request to the organization endpoint: every probe
\* of the organization endpoint is for another name.
C19_NoOrgProbeForOwnName ==
    \A i \in 1..Len(requests) :
        requests[i].op = "org" =>
            config[requests[i].site].credentials # requests[i].workspace

\* C20: the classification of a reply is total: a status the operation
\* expects raises nothing; otherwise 404 raises RepositoryNotFound, 403 on
\* Bitbucket and 401 on GitHub AccessDenied, 403 on GitHub
\* RateLimitExceeded, the name-taken status of create (400 on Bitbucket,
\* 422 on GitHub) AlreadyExists, and any other status RemoteError.
C20_ClassificationTotal ==
    call.op = "reply_check" =>
        LET code == call.reply.code
            site == call.site
        IN  call.result =
              IF code \in Expected(site, call.operation) THEN "none"
              ELSE IF code = 404 THEN "RepositoryNotFound"
              ELSE IF (site = S_bitbucket /\ code = 403) \/ (site = S_github /\ code = 401)
              THEN "AccessDenied"
              ELSE IF site = S_github /\ code = 403 THEN "RateLimitExceeded"
              ELSE IF /\ call.operation = "create"
                      /\ code = (IF site = S_bitbucket THEN 400 ELSE 422)
              THEN "AlreadyExists"
              ELSE "RemoteError"

----------------------------------------------------------------------------
(* Properties of the operations on a Repo object.                          *)

\* C14: the password is never printed or logged in cleartext: no line the
\* program has logged or printed contains the password of the object's
\* credentials, and the string form of the credentials is the username and
\* as many asterisks as the password is long.
C14_PasswordNeverInCleartext ==
    LET password == repo.credentials.password
        shows(text) == \E i \in 1..(Len(text) - Len(password) + 1) :
                          SubSeq(text, i, i + Len(password) - 1) = password
    IN  repo.credentials # NoCredentials =>
            /\ \A i \in 1..Len(log) : ~shows(log[i].text)
            /\ CredStr(repo.credentials) =
                  <<"'">> \o repo.credentials.username \o <<":">>
                      \o [k \in 1..Len(password) |-> "*"] \o <<"'">>

\* C15: over any operations on one object its metadata endpoint is requested
\* at most once, and reading size, access, scm, slug or full_name of an
\* object that holds them from a workspace listing sends no request.
C15_MetadataRequestedAtMostOnce ==
    /\ [](Len(requests) <= 1)
    /\ [][(/\ {"size", "access", "scm", "slug", "full_name"} \subseteq DOMAIN repo.data
           /\ call'.op = "read"
           /\ call'.arg \in {"size", "access", "scm", "slug", "full_name"})
          => requests' = requests]_vars

\* C18: checked_exists returns true only if the site has the repository and
\* the canonical slug of its metadata (the slug of a Bitbucket payload, the
\* name of a GitHub payload) is the slug that was requested; a repository
\* reached through its old slug after a rename is reported as not existing.
C18_CheckedExistsComparesRequestedSlug ==
    [][(call'.op = "checked_exists" /\ steps' = steps + 1 /\ call'.exc = "none") =>
        LET canonical == IF repo.site = S_bitbucket THEN site_reply.slug
                         ELSE site_reply.name
        IN  /\ call'.ret = TRUE => (site_reply.code = 200 /\ canonical = RepoSlug)
            /\ (site_reply.code = 200 /\ canonical = OtherSlug) => call'.ret = FALSE]_vars

----------------------------------------------------------------------------
(* Properties of cloning.                                                  *)

\* C16: _clone of a repository whose destination exists never invokes the
\* external clone operation and fails with DirectoryAlreadyExists on a plain
\* directory, RepositoryAlreadyCloned on a working copy of the same
\* reference and UnrelatedRepository on a working copy of another one; a
\* repository the site does not have fails with RepositoryNotFound whatever
\* is at the destination.  (A request that cannot be sent is left aside.)
C16_ClonePreconditions ==
    [][(call'.op = "_clone" /\ steps' = steps + 1 /\ call'.exc # "NetworkError") =>
        LET dst == dest[destdir(repo, RepoOwner, site_reply, "ok")]
            origins(slug) == {Links(repo.site, RepoOwner, slug).ssh,
                              Links(repo.site, RepoOwner, slug).https,
                              Links(repo.site, RepoOwner, slug).html}
        IN  /\ site_reply.code = 404 => call'.exc = "RepositoryNotFound" /\ clones' = clones
            /\ (site_reply.code = 200 /\ dst.kind # "absent") =>
                  /\ clones' = clones
                  /\ dst.kind = "plain" => call'.exc = "DirectoryAlreadyExists"
                  /\ (dst.kind = "git" /\ dst.origin \in origins(RepoSlug))
                        => call'.exc = "RepositoryAlreadyCloned"
                  /\ (dst.kind = "git" /\ dst.origin \in origins(OtherSlug))
                        => call'.exc = "UnrelatedRepository"]_vars

\* C17: a call of Repo.clone ends and invokes the external clone operation
\* at most twice; a second invocation follows only a failed first one with
\* ssh, and uses the https link with the credentials in it; a failed first
\* invocation with ssh is always retried; a failed invocation with https
\* raises its failure; a successful first invocation is the only one.
C17_SingleRetry ==
    [][(call'.op \in {"clone", "_clone"} /\ steps' = steps + 1) =>
        LET attempts == SubSeq(clones', Len(clones) + 1, Len(clones'))
            proto == call'.arg
            links == repo'.props["clone_links"]
            https == auth(repo'.credentials, links.https)
        IN  /\ Len(attempts) <= 2
            /\ call'.exc # "RecursionError"
            /\ attempts # <<>> =>
                  /\ attempts[1].url = IF proto = "ssh" THEN links.ssh ELSE https
                  /\ attempts[1].ok => Len(attempts) = 1 /\ call'.exc = "none"
                  /\ (~attempts[1].ok /\ proto = "https") =>
                        Len(attempts) = 1 /\ call'.exc = "GitCommandError"
                  /\ (~attempts[1].ok /\ proto = "ssh") =>
                        /\ Len(attempts) = 2
                        /\ attempts[2].url = https
                        /\ call'.exc = IF attempts[2].ok THEN "none" ELSE "GitCommandError"]_vars

\* C17: a clone with ssh has failed and was retried with the https link
\* carrying the credentials of user u, which succeeded
C17_Witness ==
    /\ call.op = "clone"
    /\ call.arg = "ssh"
    /\ call.exc = "none"
    /\ Len(clones) = 2
    /\ ~clones[1].ok
    /\ clones[2].ok
    /\ repo.credentials # NoCredentials
    /\ clones[2].url = auth(repo.credentials, Links(repo.site, RepoOwner, RepoSlug).https)
    /\ clones[2].url # Links(repo.site, RepoOwner, RepoSlug).https

----------------------------------------------------------------------------
(* Properties of the resolver on site prefixes and on the candidate list.  *)

\* C25: the completion of a name X:name whose prefix X is no site name and
\* no abbreviation fails with UnsupportedSite, and no candidate is probed.
\* (A call that list_workspaces ended before, with ConfigError or
\* NetworkError, is left aside.)
C25_UnknownPrefixUnsupportedSite ==
    (/\ pc = "done"
     /\ completion \in {"raised", "returned"}
     /\ Count(name, ":") = 1
     /\ SitePrefix(name) \notin DOMAIN SITE_ABBREVS
     /\ exc \notin {"ConfigError", "NetworkError"})
        => exc = "UnsupportedSite" /\ probes = <<>>

\* C28: the candidate list never holds the same workspace of a site twice,
\* and found never lists one reference twice, for every configuration that
\* lists each workspace of a site once, also when the credentials' username
\* is one of them.
C28_NoDuplicateCandidates ==
    (\A site \in Sites :
        \A i, j \in 1..Len(config[site].workspaces) :
            i # j => config[site].workspaces[i] # config[site].workspaces[j])
        => /\ \A i, j \in 1..Len(workspaces) : i # j => workspaces[i] # workspaces[j]
           /\ \A i, j \in 1..Len(found) : i # j => found[i] # found[j]

----------------------------------------------------------------------------
(* Properties of Auth.auth.                                                *)

\* C24: with credentials, auth(url) is the https URL with the user part
\* username:password@ in place of any user part the URL had, its host (what
\* follows the last '@' of the part before the path) and its path
\* unchanged, and auth(auth(url)) = auth(url); with no credentials it is
\* the URL itself.
C24_AuthSetsUserInfo ==
    call.op = "auth" =>
        LET rest == Drop(call.arg, Len(S_https))
            k == Find(rest, "/")
            netloc == IF k = 0 THEN rest ELSE SubSeq(rest, 1, k - 1)
            path == IF k = 0 THEN <<>> ELSE Drop(rest, k - 1)
            host == Split(netloc, "@")[Len(Split(netloc, "@"))]
            c == call.credentials
        IN  IF c = NoCredentials
            THEN call.result = call.arg /\ call.again = call.arg
            ELSE /\ call.result =
                        S_https \o c.username \o <<":">> \o c.password \o <<"@">>
                            \o host \o path
                 /\ call.again = call.result

----------------------------------------------------------------------------
(* Properties of the operations that change the site.                      *)

\* The operations of SpecOps that took a step
RanOp(ops) == steps' # steps /\ call'.op \in ops

\* The metadata of the object is loaded
Loaded(r) == "name" \in DOMAIN r.data

\* C21: a connection failure during any remote operation (fetch, commits,
\* create, rename, delete) reaches the caller as NetworkError, and the
\* request that failed is not sent again: it is the last one of the call
\* and the only one of its kind.
C21_ConnectionFailureIsNetworkError ==
    (/\ call.op \in {"read", "check", "create", "delete", "rename", "last_commits",
                     "cmd_repo_delete"}
     /\ call.exc \in {"NetworkError", "ConnectionError"})
        => /\ call.exc = "NetworkError"
           /\ call.sent >= 1
           /\ "reqs" \in DOMAIN call =>
                \A i \in 1..(Len(call.reqs) - 1) : call.reqs[i] # call.reqs[Len(call.reqs)]

\* C23 as stated: each of create, rename, delete and last_commits issues
\* exactly one HTTP request.
C23_ExactlyOneRequest ==
    call.op \in {"create", "rename", "delete", "last_commits"} => call.sent = 1

\* C23: create, delete and last_commits (iterated) issue exactly one
\* request each.  rename issues none for a name with a '/'; otherwise the
\* metadata request of check() unless the metadata is already loaded, and
\* then, only if check() raised nothing, exactly one PUT or PATCH.
C23_OneRequestBesidesTheFetch ==
    [][/\ RanOp({"create", "delete", "last_commits"})
            => call'.reqs = <<CASE call'.op = "last_commits" -> "commits"
                                [] OTHER -> call'.op>>
       /\ RanOp({"rename"})
            => LET fetch == IF Loaded(repo) \/ "webpage" \in DOMAIN repo.props
                            THEN <<>> ELSE <<"repo">>
               IN  IF Contains(call'.arg, "/") THEN call'.reqs = <<>>
                   ELSE \/ call'.reqs = fetch \o <<"rename">>
                        \/ /\ call'.reqs = fetch
                           /\ fetch # <<>>
                           /\ call'.exc \notin {"none", "ConnectionError"}]_vars

C23_Witness ==
    /\ call.op = "rename"
    /\ call.exc = "none"
    /\ call.reqs = <<"repo", "rename">>

\* C26: memoized values are never invalidated: once the metadata is
\* loaded, every value the object holds stays as it is, also after a rename
\* or delete through the same object, and a read returns the value of
\* that first load.
C26_MemoNeverInvalidated ==
    [][Loaded(repo)
        => /\ \A a \in DOMAIN repo.data :
                a \in DOMAIN repo'.data /\ repo'.data[a] = repo.data[a]
           /\ \A a \in DOMAIN repo.cache :
                a \in DOMAIN repo'.cache /\ repo'.cache[a] = repo.cache[a]
           /\ \A a \in DOMAIN repo.props :
                a \in DOMAIN repo'.props /\ repo'.props[a] = repo.props[a]
           /\ (RanOp({"read"}) /\ call'.exc = "none")
                => call'.ret = repo.data[call'.arg]]_vars

\* C29: the delete command sends the DELETE request only after the
\* existence check succeeded and the prompt was answered with exactly YES;
\* on any other answer or a keyboard interrupt the process exits with code
\* 1 and sends no DELETE, then or later; a repository the site does not
\* serve fails with RepositoryNotFound (NetworkError if the connection
\* fails) and the prompt is not shown.
C29_DeleteOnlyAfterConfirmation ==
    [][/\ RanOp({"cmd_repo_delete"})
            => LET prompted == \E i \in 1..Len(call'.lines) : call'.lines[i].level = "INPUT"
                   deleting == \E i \in 1..Len(call'.reqs) : call'.reqs[i] = "delete"
               IN  /\ deleting
                        => /\ prompted
                           /\ call'.arg = S_YES
                           /\ "webpage" \in DOMAIN repo'.props
                           /\ call'.reqs[Len(call'.reqs)] = "delete"
                           /\ \A i \in 1..(Len(call'.reqs) - 1) : call'.reqs[i] # "delete"
                   /\ (prompted /\ call'.arg # S_YES)
                        => exit_code' = 1 /\ ~deleting /\ call'.exc = "SystemExit"
                   /\ site_reply = Gone
                        => /\ ~prompted
                           /\ ~deleting
                           /\ call'.exc \in {"RepositoryNotFound", "NetworkError"}
       /\ exit_code = 1 => requests' = requests]_vars

C29_Witness ==
    /\ call.op = "cmd_repo_delete"
    /\ call.arg = S_YES
    /\ call.exc = "none"
    /\ call.reqs = <<"repo", "delete">>
    /\ site_reply = Gone

\* C30: last_commits(max_=n) yields the first n commits the site returned
\* (all of them when there are fewer), in the site's order; for an empty
\* repository (no commits on Bitbucket, status 409 on GitHub) it yields
\* nothing and raises nothing.
C30_LastCommitsUpToMax ==
    (call.op = "last_commits" /\ call.arg.code \in {200, 409})
        => /\ call.exc = "none"
           /\ call.ret = SubSeq(call.arg.values, 1,
                                IF Len(call.arg.values) < call.arg.max_
                                THEN Len(call.arg.values) ELSE call.arg.max_)

----------------------------------------------------------------------------
(* Properties of the listing of a workspace.                               *)

\* The repositories of the first m pages of the chain, in order
RECURSIVE Flat(_, _)
Flat(chain, m) == IF m = 0 THEN <<>> ELSE Flat(chain, m - 1) \o chain[m].values

\* The site serves the workspace's URL a chain of pages all answered 200
GoodChain ==
    /\ wks # NoWorkspace
    /\ wks.url \in ServedAt(wks.site, listing, wks.credentials, wks.name)
    /\ \A k \in 1..Len(listing.chain) : listing.chain[k].code = 200

\* C22: for a listing that is a chain of pages p1..pn, the generator of
\* every call of ls_repos has requested the pages in chain order, each
\* once, starting at the first page however far the generator of the call
\* before had walked; none before its first item was asked for; page m
\* only after every repository of the pages before it was yielded; it has
\* yielded the repositories of the pages it requested, in order, and when
\* it has ended without a connection failure it has requested all n pages
\* and yielded all their repositories.
C22_PagesWalkedInOrder ==
    GoodChain =>
        \A j \in 1..Len(gens) :
            LET g == gens[j]
                m == Len(g.sent)
                n == Len(listing.chain)
                failed == \E i \in 1..m : g.sent[i].failed
                got == Flat(listing.chain, IF failed THEN m - 1 ELSE m)
            IN  /\ m <= n
                /\ \A k \in 1..m :
                        g.sent[k].url = auth(wks.credentials, PageUrl(wks.url, k))
                /\ g.state = "created" => m = 0
                /\ Len(g.yielded) <= Len(got)
                /\ m >= 1 => Len(g.yielded) >= Len(Flat(listing.chain, m - 1))
                /\ \A i \in 1..Len(g.yielded) :
                        g.yielded[i] = from_data(wks.site, wks.name, got[i], wks.credentials)
                /\ (g.state = "ended" /\ ~failed)
                        => m = n /\ Len(g.yielded) = Len(got)

\* The generator of a second call of ls_repos has walked both pages of a
\* listing to its end
C22_Witness ==
    /\ GoodChain
    /\ Len(listing.chain) = 2
    /\ steps = 2
    /\ call.op = "next"
    /\ call.exc = "StopIteration"
    /\ gens[1].state = "ended"
    /\ Len(gens[1].sent) = 2
    /\ Len(gens[1].yielded) = 3
    /\ ~gens[1].sent[2].failed

\* C27: checking or listing a workspace the site does not have raises
\* RemoteError (NetworkError if the connection fails), and a reply to a
\* page request with a status other than 200 raises RemoteError from the
\* next() that requested it, the repositories of the pages before it
\* having been yielded.
C27_RemoteErrorOnWorkspace ==
    /\ (call.op \in {"check", "next"} /\ listing.kind = "missing")
            => call.exc \in {"RemoteError", "NetworkError"}
    /\ (call.op = "next" /\ call.exc \notin {"none", "StopIteration", "NetworkError"})
            => /\ call.exc = "RemoteError"
               /\ gens[1].state = "ended"
               /\ Len(gens[1].yielded) = Len(Flat(listing.chain, Len(gens[1].sent) - 1))

====
